---------------------------- MODULE Spec2Model ----------------------------
(***************************************************************************)
(* ECC_Analyzer_Pro: the curve-analysis engine (app/core/validators.py,    *)
(* app/core/algorithms.py) and the part of the GUI shell that drives it    *)
(* (MainWindow.process_files, MainWindow.recalculate_all_data).            *)
(*                                                                         *)
(* Numbers.  The program computes in float64.  The model computes in exact *)
(* rational arithmetic over integers; rounding is not modelled.            *)
(*   - a stress value is an integer (MPa);                                 *)
(*   - a strain array is a sequence of integers k together with a decimal  *)
(*     exponent e: the strain values are k * 10^e.  Dividing by 100 is     *)
(*     e - 2;                                                              *)
(*   - smooth_stress is held multiplied by SG (70, the common denominator  *)
(*     of the Savitzky-Golay weights for window 5, order 3);               *)
(*   - a value derived by division is a pair num/den, compared by RatCmp;  *)
(*   - scipy.integrate.simpson is not evaluated: an energy is held as the  *)
(*     integrand it is computed from.                                      *)
(* Indices are 0-based as in the source; At(s, i) reads s at index i.      *)
(***************************************************************************)
EXTENDS Integers, Sequences, FiniteSets, TLC

\* ------------------------------------------------------------------------
\* Bounds of the model
\* ------------------------------------------------------------------------
\* The longest strain/stress column of a sample.
MaxLen == 6

\* The longest column handed to the validator alone.
MaxRawLen == 6

\* How often the stored results are recalculated.
MaxRecalc == 1

\* ------------------------------------------------------------------------
\* Arithmetic helpers
\* ------------------------------------------------------------------------
Max2(a, b) == IF a >= b THEN a ELSE b

Min2(a, b) == IF a <= b THEN a ELSE b

Abs(a) == IF a < 0 THEN 0 - a ELSE a

SetMax(S) == CHOOSE x \in S : \A y \in S : y <= x

SetMin(S) == CHOOSE x \in S : \A y \in S : x <= y

RECURSIVE GCD(_, _)
GCD(a, b) == IF b = 0 THEN Abs(a) ELSE GCD(b, a % Abs(b))

LCM(a, b) == (a \div GCD(a, b)) * b

RECURSIVE Pow10(_)
Pow10(n) == IF n <= 0 THEN 1 ELSE 10 * Pow10(n - 1)

\* Sign of a/b - c/d for b > 0 and d > 0, by the Euclidean expansion of both
\* fractions: no product of numerators and denominators is formed.
RECURSIVE RatCmp(_, _, _, _)
RatCmp(a, b, c, d) ==
    LET qa == a \div b
        qc == c \div d
        ra == a % b
        rc == c % d
    IN  IF qa < qc THEN -1
        ELSE IF qa > qc THEN 1
        ELSE IF ra = 0 /\ rc = 0 THEN 0
        ELSE IF ra = 0 THEN -1
        ELSE IF rc = 0 THEN 1
        ELSE RatCmp(d, rc, b, ra)

RatLt(a, b, c, d) == RatCmp(a, b, c, d) < 0

RatGt(a, b, c, d) == RatCmp(a, b, c, d) > 0

\* A reported value n/d * 10^e: n/d reduced, d > 0, zero written 0/1 * 10^0.
Val(n, d, e) ==
    IF n = 0 THEN [n |-> 0, d |-> 1, e |-> 0]
    ELSE LET g == GCD(n, d)
             s == IF d < 0 THEN 0 - 1 ELSE 1
         IN  [n |-> s * (n \div g), d |-> s * (d \div g), e |-> e]

\* Sign of a - b for two reported values.
\* app/core/algorithms.py, lines 131-131: float comparison of two reported values
ValCmp(a, b) ==
    LET m == Min2(a.e, b.e)
    IN  RatCmp(a.n * Pow10(a.e - m), a.d, b.n * Pow10(b.e - m), b.d)

At(s, i) == s[i + 1]

Prefix(s, n) == SubSeq(s, 1, Min2(n, Len(s)))

RECURSIVE SumSeq(_)
SumSeq(s) == IF s = <<>> THEN 0 ELSE Head(s) + SumSeq(Tail(s))

SeqMax(s) == SetMax({s[i] : i \in DOMAIN s})

SeqMin(s) == SetMin({s[i] : i \in DOMAIN s})

\* np.argmax: the first index of the largest value.
ArgMax(s) == SetMin({i \in DOMAIN s : \A j \in DOMAIN s : s[j] <= s[i]}) - 1

RECURSIVE SortAsc(_)
SortAsc(S) ==
    IF S = {} THEN <<>>
    ELSE LET m == SetMin(S) IN <<m>> \o SortAsc(S \ {m})

RECURSIVE SortDesc(_)
SortDesc(s) ==
    IF s = <<>> THEN <<>>
    ELSE LET i == ArgMax(s) + 1
         IN  <<s[i]>> \o SortDesc(SubSeq(s, 1, i - 1) \o SubSeq(s, i + 1, Len(s)))

\* The subsequence of s at the positions where keep holds (a boolean mask).
RECURSIVE Mask(_, _)
Mask(s, keep) ==
    IF s = <<>> THEN <<>>
    ELSE (IF Head(keep) THEN <<Head(s)>> ELSE <<>>) \o Mask(Tail(s), Tail(keep))

\* ------------------------------------------------------------------------
\* app/core/validators.py
\* ------------------------------------------------------------------------
\* The non-finite float64 values an input array may hold.
NaN == 9001

Inf == 9002

IsFinite(x) == x # NaN /\ x # Inf

\* np.unique(strain, return_index=True): the distinct values ascending, and
\* for each the index of its first occurrence.
UniqueStrain(strain) == SortAsc({strain[i] : i \in DOMAIN strain})

\* Mutant: the index of the last occurrence is returned.
UniqueIndices_last(strain) ==
    LET u == UniqueStrain(strain)
    IN  [j \in DOMAIN u |-> SetMax({i \in DOMAIN strain : strain[i] = u[j]})]

UniqueIndices(strain) ==
    LET u == UniqueStrain(strain)
    IN  [j \in DOMAIN u |-> SetMin({i \in DOMAIN strain : strain[i] = u[j]})]

\* span * 10^e < 1e-9, for an integer span
SpanTooSmall(span, e) ==
    IF e >= 0 - 9 THEN span < 1 ELSE span < Pow10(0 - 9 - e)

Raise(kind, stage) ==
    [ok |-> FALSE, err |-> kind, stage |-> stage, strain |-> <<>>, stress |-> <<>>]

\* Mutant: the stress span is not checked.
ValidateFinish_noStressSpan(strain, stress, e) ==
    IF Len(strain) < 5 THEN Raise("InsufficientData", "unique")
    ELSE IF SpanTooSmall(strain[Len(strain)] - strain[1], e)
         THEN Raise("DegenerateRange", "strain")
    ELSE [ok |-> TRUE, err |-> "none", stage |-> "none",
          strain |-> strain, stress |-> stress]

\* Mutant: the point count is not checked again after de-duplication.
ValidateFinish_noCount(strain, stress, e) ==
    IF SpanTooSmall(strain[Len(strain)] - strain[1], e)
    THEN Raise("DegenerateRange", "strain")
    ELSE IF SeqMax(stress) - SeqMin(stress) < 1
         THEN Raise("DegenerateRange", "stress")
    ELSE [ok |-> TRUE, err |-> "none", stage |-> "none",
          strain |-> strain, stress |-> stress]

ValidateFinish(strain, stress, e) ==
    IF Len(strain) < 5 THEN Raise("InsufficientData", "unique")
    ELSE IF SpanTooSmall(strain[Len(strain)] - strain[1], e)
         THEN Raise("DegenerateRange", "strain")
    ELSE IF SeqMax(stress) - SeqMin(stress) < 1
         THEN Raise("DegenerateRange", "stress")
    ELSE [ok |-> TRUE, err |-> "none", stage |-> "none",
          strain |-> strain, stress |-> stress]

ValidateUnique(strain, stress, e) ==
    LET unique_strain == UniqueStrain(strain)
        unique_indices == UniqueIndices(strain)
        reorder == \/ Len(unique_strain) < Len(strain)
                   \/ \E j \in 1..(Len(unique_indices) - 1) :
                          unique_indices[j + 1] - unique_indices[j] < 0
    IN  IF reorder
        THEN ValidateFinish(unique_strain,
                            [j \in DOMAIN unique_indices |-> stress[unique_indices[j]]], e)
        ELSE ValidateFinish(strain, stress, e)

\* Mutant: the non-finite pairs are not removed.
ValidateClean_keepNonFinite(strain, stress, e) ==
    IF Len(strain) < 5 THEN Raise("InsufficientData", "finite")
    ELSE ValidateUnique(strain, stress, e)

ValidateClean(strain, stress, e) ==
    LET finite_mask == [i \in DOMAIN strain |-> IsFinite(strain[i]) /\ IsFinite(stress[i])]
        s1 == Mask(strain, finite_mask)
        t1 == Mask(stress, finite_mask)
    IN  IF Len(s1) < 5 THEN Raise("InsufficientData", "finite")
        ELSE ValidateUnique(s1, t1, e)

\* Mutant: the point count is checked before the lengths are compared.
validate_and_sort_data_countFirst(strain, stress, e) ==
    IF Len(strain) < 5 THEN Raise("InsufficientData", "raw")
    ELSE IF Len(strain) # Len(stress) THEN Raise("DimensionMismatch", "shape")
    ELSE ValidateClean(strain, stress, e)

validate_and_sort_data(strain, stress, e) ==
    IF Len(strain) # Len(stress) THEN Raise("DimensionMismatch", "shape")
    ELSE IF Len(strain) < 5 THEN Raise("InsufficientData", "raw")
    ELSE ValidateClean(strain, stress, e)

\* ------------------------------------------------------------------------
\* app/core/algorithms.py: BaseAnalyzer
\* ------------------------------------------------------------------------
\* Scale of smooth_stress and of a Savitzky-Golay output: the weights of a
\* window of 5 points are multiples of 1/70.
SG == 70

\* Hat-matrix rows of the least-squares polynomial through 5 equally spaced
\* points, times SG: the value fitted at the first point, at the second
\* point and at the middle point (order 2 or 3).
SavgolRow0(polyorder) ==
    IF polyorder = 3 THEN <<69, 4, 0 - 6, 4, 0 - 1>> ELSE <<62, 18, 0 - 6, 0 - 10, 6>>

SavgolRow1(polyorder) ==
    IF polyorder = 3 THEN <<4, 54, 24, 0 - 16, 4>> ELSE <<18, 26, 24, 12, 0 - 10>>

SavgolMid == <<0 - 6, 24, 34, 24, 0 - 6>>

Dot5(w, y, from, step) ==
    w[1] * y[from] + w[2] * y[from + step] + w[3] * y[from + 2 * step]
        + w[4] * y[from + 3 * step] + w[5] * y[from + 4 * step]

\* scipy.signal.savgol_filter(y, 5, polyorder), mode 'interp', times SG: the
\* middle weights inside, the polynomial fitted to the first (last) 5 points
\* at the first (last) 2 positions.  Needs Len(y) >= 5.
Savgol5(y, polyorder) ==
    LET n == Len(y)
    IN  [i \in 1..n |->
            IF i = 1 THEN Dot5(SavgolRow0(polyorder), y, 1, 1)
            ELSE IF i = 2 THEN Dot5(SavgolRow1(polyorder), y, 1, 1)
            ELSE IF i = n THEN Dot5(SavgolRow0(polyorder), y, n, 0 - 1)
            ELSE IF i = n - 1 THEN Dot5(SavgolRow1(polyorder), y, n, 0 - 1)
            ELSE Dot5(SavgolMid, y, i - 2, 1)]

Copy(y) == [i \in DOMAIN y |-> SG * y[i]]

\* savgol_filter raises when polyorder >= window_length or when the window
\* is longer than the data; the model holds the weights of window 5 only.
SavgolFails(n, win, polyorder) == polyorder >= win \/ win > n

OddWindow(win) == IF win % 2 = 0 THEN win + 1 ELSE win

\* Mutant: a curve as long as the window is filtered too.
SmoothStress_atLeastWindow(stress, SMOOTH_WINDOW) ==
    LET win == OddWindow(SMOOTH_WINDOW)
    IN  IF Len(stress) >= win
        THEN IF SavgolFails(Len(stress), win, 3) THEN Copy(stress)
             ELSE CASE win = 5 -> Savgol5(stress, 3)
        ELSE Copy(stress)

\* __init__, lines 40-49: smooth_stress, times SG.
SmoothStress(stress, SMOOTH_WINDOW) ==
    LET win == OddWindow(SMOOTH_WINDOW)
    IN  IF Len(stress) > win
        THEN IF SavgolFails(Len(stress), win, 3) THEN Copy(stress)
             ELSE CASE win = 5 -> Savgol5(stress, 3)
        ELSE Copy(stress)

\* np.nanmax(strain) > 1.0 for strain = k * 10^e
StrainAboveOne(strain, e) ==
    LET m == SeqMax(strain)
    IN  IF e >= 0 THEN m * Pow10(e) > 1 ELSE m > Pow10(0 - e)

NoAnalyzer ==
    [ok |-> FALSE, err |-> "none", stage |-> "none", raw_strain |-> <<>>, e |-> 0,
     raw_stress |-> <<>>, smooth_stress |-> <<>>]

\* Mutant: only a single point bypasses the validator.
BaseAnalyzerInit_bypassOne(strain_arr, e, stress_arr, SMOOTH_WINDOW) ==
    IF Len(stress_arr) <= 1
    THEN [ok |-> TRUE, err |-> "none", stage |-> "none", raw_strain |-> strain_arr,
          e |-> e, raw_stress |-> stress_arr, smooth_stress |-> Copy(stress_arr)]
    ELSE LET v == validate_and_sort_data(strain_arr, stress_arr, e)
         IN  IF ~v.ok
             THEN [NoAnalyzer EXCEPT !.err = v.err, !.stage = v.stage]
             ELSE [ok |-> TRUE, err |-> "none", stage |-> "none",
                   raw_strain |-> v.strain,
                   e |-> IF StrainAboveOne(v.strain, e) THEN e - 2 ELSE e,
                   raw_stress |-> v.stress,
                   smooth_stress |-> SmoothStress(v.stress, SMOOTH_WINDOW)]

\* Mutant: the failure of the filter is not caught.
BaseAnalyzerInit_savgolRaises(strain_arr, e, stress_arr, SMOOTH_WINDOW) ==
    IF Len(stress_arr) <= 3
    THEN [ok |-> TRUE, err |-> "none", stage |-> "none", raw_strain |-> strain_arr,
          e |-> e, raw_stress |-> stress_arr, smooth_stress |-> Copy(stress_arr)]
    ELSE LET v == validate_and_sort_data(strain_arr, stress_arr, e)
             win == OddWindow(SMOOTH_WINDOW)
         IN  IF ~v.ok
             THEN [NoAnalyzer EXCEPT !.err = v.err, !.stage = v.stage]
             ELSE IF Len(v.stress) > win /\ SavgolFails(Len(v.stress), win, 3)
             THEN [NoAnalyzer EXCEPT !.err = "ValueError", !.stage = "smooth"]
             ELSE [ok |-> TRUE, err |-> "none", stage |-> "none",
                   raw_strain |-> v.strain,
                   e |-> IF StrainAboveOne(v.strain, e) THEN e - 2 ELSE e,
                   raw_stress |-> v.stress,
                   smooth_stress |-> SmoothStress(v.stress, SMOOTH_WINDOW)]

\* BaseAnalyzer.__init__(strain_arr, stress_arr): the analyzer built, or the
\* error raised.
BaseAnalyzerInit(strain_arr, e, stress_arr, SMOOTH_WINDOW) ==
    IF Len(stress_arr) <= 3
    THEN [ok |-> TRUE, err |-> "none", stage |-> "none", raw_strain |-> strain_arr,
          e |-> e, raw_stress |-> stress_arr, smooth_stress |-> Copy(stress_arr)]
    ELSE LET v == validate_and_sort_data(strain_arr, stress_arr, e)
         IN  IF ~v.ok
             THEN [NoAnalyzer EXCEPT !.err = v.err, !.stage = v.stage]
             ELSE [ok |-> TRUE, err |-> "none", stage |-> "none",
                   raw_strain |-> v.strain,
                   e |-> IF StrainAboveOne(v.strain, e) THEN e - 2 ELSE e,
                   raw_stress |-> v.stress,
                   smooth_stress |-> SmoothStress(v.stress, SMOOTH_WINDOW)]

\* What a call returns when it raises instead.
IndexError == [Type |-> "IndexError"]

Raises(r) == r.Type = "IndexError"

\* line 54: raw_strain[idx_peak] with a strain array shorter than the
\* stress array (the arrays of a curve of at most 3 points are not checked)
PeakRaises(an) ==
    Len(an.raw_stress) > 0 /\ ArgMax(an.smooth_stress) >= Len(an.raw_strain)

\* strain * 100.0 for strain = k * 10^e; NaN stays NaN
StrainPercent(k, e) == IF k = NaN THEN [n |-> NaN, d |-> 1, e |-> 0] ELSE Val(k, 1, e + 2)

\* _calc_peak_robust: idx_peak, stress_max (times SG), strain_at_peak (k)
CalcPeakRobust(an) ==
    IF Len(an.raw_stress) = 0 THEN [idx_peak |-> 0, stress_max |-> 0, strain_at_peak |-> 0]
    ELSE LET idx_peak == ArgMax(an.smooth_stress)
         IN  [idx_peak |-> idx_peak, stress_max |-> At(an.smooth_stress, idx_peak),
              strain_at_peak |-> At(an.raw_strain, idx_peak)]

\* np.polyfit(x, y, 1): slope sn/d and intercept inum/d of the least-squares
\* line, d = m*Sxx - Sx^2 > 0 for distinct x.
PolyFit1(x, y) ==
    LET m == Len(x)
        Sx == SumSeq(x)
        Sy == SumSeq(y)
        Sxx == SumSeq([i \in DOMAIN x |-> x[i] * x[i]])
        Sxy == SumSeq([i \in DOMAIN x |-> x[i] * y[i]])
    IN  [sn |-> m * Sxy - Sx * Sy, inum |-> Sy * Sxx - Sx * Sxy, d |-> m * Sxx - Sx * Sx]

ZeroFit == [sn |-> 0, inum |-> 0, d |-> 1]

\* lower% * stress_max <= stress <= upper% * stress_max, stress_max times SG
InBand(stress, lower, upper, stress_max) ==
    /\ 100 * SG * stress >= lower * stress_max
    /\ 100 * SG * stress <= upper * stress_max

\* Mutant: the band is not widened when it holds too few points.
CalcEEffectiveRegression_noWiden(an, idx_peak, stress_max, LOWER, UPPER) ==
    IF Len(an.raw_stress) < 5 \/ stress_max <= 0 THEN ZeroFit
    ELSE LET strain_seg == Prefix(an.raw_strain, idx_peak)
             stress_seg == Prefix(an.raw_stress, idx_peak)
             mask == [i \in DOMAIN stress_seg |->
                         InBand(stress_seg[i], LOWER, UPPER, stress_max)]
             x_fit == Mask(strain_seg, mask)
             y_fit == Mask(stress_seg, mask)
         IN  IF Len(x_fit) > 2
             THEN LET f == PolyFit1(x_fit, y_fit)
                  IN  [f EXCEPT !.sn = Max2(0, f.sn)]
             ELSE ZeroFit

\* _calc_E_effective_regression: slope sn/d (stress per unit of k, floored at
\* 0) and intercept inum/d.
CalcEEffectiveRegression(an, idx_peak, stress_max, LOWER, UPPER) ==
    IF Len(an.raw_stress) < 5 \/ stress_max <= 0 THEN ZeroFit
    ELSE LET strain_seg == Prefix(an.raw_strain, idx_peak)
             stress_seg == Prefix(an.raw_stress, idx_peak)
             mask1 == [i \in DOMAIN stress_seg |->
                          InBand(stress_seg[i], LOWER, UPPER, stress_max)]
             narrow == Len(Mask(strain_seg, mask1)) < 3
             mask == IF narrow
                     THEN [i \in DOMAIN stress_seg |->
                              InBand(stress_seg[i], 5, 50, stress_max)]
                     ELSE mask1
             x_fit == Mask(strain_seg, mask)
             y_fit == Mask(stress_seg, mask)
         IN  IF Len(x_fit) > 2
             THEN LET f == PolyFit1(x_fit, y_fit)
                  IN  [f EXCEPT !.sn = Max2(0, f.sn)]
             ELSE ZeroFit

\* np.gradient(f, x), edge_order 1, at position i (1-based) of n: numerator
\* and denominator.  Inside, with hs = x[i]-x[i-1] and hd = x[i+1]-x[i]:
\* (hs^2 f[i+1] + (hd^2 - hs^2) f[i] - hd^2 f[i-1]) / (hs hd (hs + hd)).
GradDen(x, i) ==
    LET n == Len(x)
    IN  IF i = 1 THEN x[2] - x[1]
        ELSE IF i = n THEN x[n] - x[n - 1]
        ELSE (x[i] - x[i - 1]) * (x[i + 1] - x[i]) * (x[i + 1] - x[i - 1])

GradNum(f, x, i) ==
    LET n == Len(x)
    IN  IF i = 1 THEN f[2] - f[1]
        ELSE IF i = n THEN f[n] - f[n - 1]
        ELSE LET hs == x[i] - x[i - 1]
                 hd == x[i + 1] - x[i]
             IN  hs * hs * f[i + 1] + (hd * hd - hs * hs) * f[i] - hd * hd * f[i - 1]

RECURSIVE GradLCM(_, _)
GradLCM(x, i) == IF i = 0 THEN 1 ELSE LCM(GradDen(x, i), GradLCM(x, i - 1))

\* _calc_tangent_modulus_curve: the values v[i] / den, in stress per unit of
\* k.  den = SG (smooth_stress) * the common denominator of the gradient *
\* SG (the second filter).
CalcTangentModulusCurve(an, idx_peak) ==
    IF idx_peak < 5 THEN [v |-> [i \in 1..idx_peak |-> 0], den |-> 1]
    ELSE LET s_strain == Prefix(an.raw_strain, idx_peak)
             s_stress == Prefix(an.smooth_stress, idx_peak)
             L == GradLCM(s_strain, idx_peak)
             dedx == [i \in 1..idx_peak |->
                         GradNum(s_stress, s_strain, i) * (L \div GradDen(s_strain, i))]
             win == OddWindow(Max2(5, Len(dedx) \div 10))
         IN  IF SavgolFails(Len(dedx), win, 2) THEN [v |-> dedx, den |-> SG * L]
             ELSE CASE win = 5 -> [v |-> Savgol5(dedx, 2), den |-> SG * L * SG]

\* lo < v/den * 10^(-e) < hi: the band-pass filter on a tangent modulus held
\* in stress per unit of k, where strain = k * 10^e.
InPhysicalBand(v, den, e, lo, hi) ==
    LET sn == IF e > 0 THEN Pow10(e) ELSE 1
        sd == IF e > 0 THEN 1 ELSE Pow10(0 - e)
    IN  RatGt(v, den, lo * sn, sd) /\ RatLt(v, den, hi * sn, sd)

\* Mutant: the whole curve is searched.
CalcEInitStatistical_wholeCurve(dedx_curve, e) ==
    IF Len(dedx_curve.v) = 0 THEN [n |-> 0, d |-> 1]
    ELSE LET sub_curve == dedx_curve.v
             keep == [i \in DOMAIN sub_curve |->
                         InPhysicalBand(sub_curve[i], dedx_curve.den, e, 1000, 60000)]
             valid_slopes == Mask(sub_curve, keep)
         IN  IF Len(valid_slopes) = 0 THEN [n |-> 0, d |-> 1]
             ELSE LET sorted_slopes == SortDesc(valid_slopes)
                      cnt == Max2(1, Len(sorted_slopes) \div 10)
                  IN  [n |-> SumSeq(Prefix(sorted_slopes, cnt)),
                       d |-> dedx_curve.den * cnt]

\* _calc_E_init_statistical: n/d in stress per unit of k
CalcEInitStatistical(dedx_curve, e) ==
    IF Len(dedx_curve.v) = 0 THEN [n |-> 0, d |-> 1]
    ELSE LET limit_idx == Max2(5, (Len(dedx_curve.v) * 3) \div 10)
             sub_curve == Prefix(dedx_curve.v, limit_idx)
             keep == [i \in DOMAIN sub_curve |->
                         InPhysicalBand(sub_curve[i], dedx_curve.den, e, 1000, 60000)]
             valid_slopes == Mask(sub_curve, keep)
         IN  IF Len(valid_slopes) = 0 THEN [n |-> 0, d |-> 1]
             ELSE LET sorted_slopes == SortDesc(valid_slopes)
                      cnt == Max2(1, Len(sorted_slopes) \div 10)
                  IN  [n |-> SumSeq(Prefix(sorted_slopes, cnt)),
                       d |-> dedx_curve.den * cnt]

\* ------------------------------------------------------------------------
\* app/core/algorithms.py: TensileAnalyzer.run_analysis
\* ------------------------------------------------------------------------
\* Mutant: the statistical estimate is reported as it is.
FloorEInit_none(E_init, fit) == E_init

\* lines 127-131: the initial modulus, floored by the effective modulus
FloorEInit(E_init, fit) ==
    IF RatLt(E_init.n, E_init.d, fit.sn, fit.d) THEN [n |-> fit.sn, d |-> fit.d]
    ELSE E_init

\* Mutant: the noise-floor condition is left out of the mask.
CrackMask_noNoiseFloor(an, fit, dedx, E_init, stress_max, i) ==
    LET k == At(an.raw_strain, i)
        s == At(an.raw_stress, i)
    IN  /\ RatGt(fit.sn * k + fit.inum - s * fit.d, fit.d,
                 Max2(5 * SG, stress_max), 100 * SG)
        /\ RatLt(At(dedx.v, i), dedx.den, 17 * E_init.n, 20 * E_init.d)

\* lines 138-139: the three conditions of the crack mask at index i
CrackMask(an, fit, dedx, E_init, stress_max, i) ==
    LET k == At(an.raw_strain, i)
        s == At(an.raw_stress, i)
    IN  /\ RatGt(fit.sn * k + fit.inum - s * fit.d, fit.d,
                 Max2(5 * SG, stress_max), 100 * SG)
        /\ RatLt(At(dedx.v, i), dedx.den, 17 * E_init.n, 20 * E_init.d)
        /\ 10 * SG * s > stress_max

\* Mutant: without a candidate the crack index is the last index.
CrackIndex_lastIndex(an, fit, dedx, E_init, idx_peak, stress_max) ==
    LET len_calc == Min2(Len(dedx.v), idx_peak)
        candidates == {i \in 0..(len_calc - 1) :
                          CrackMask(an, fit, dedx, E_init, stress_max, i)}
    IN  IF len_calc > 0 /\ candidates # {}
        THEN [found |-> TRUE, idx_cr |-> SetMin(candidates)]
        ELSE [found |-> FALSE, idx_cr |-> Len(an.raw_stress) - 1]

\* Mutant: the last candidate is taken instead of the first.
CrackIndex_lastCandidate(an, fit, dedx, E_init, idx_peak, stress_max) ==
    LET len_calc == Min2(Len(dedx.v), idx_peak)
        candidates == {i \in 0..(len_calc - 1) :
                          CrackMask(an, fit, dedx, E_init, stress_max, i)}
    IN  IF len_calc > 0 /\ candidates # {}
        THEN [found |-> TRUE, idx_cr |-> SetMax(candidates)]
        ELSE [found |-> FALSE, idx_cr |-> idx_peak]

\* lines 133-144: idx_cr, and whether a candidate was found
CrackIndex(an, fit, dedx, E_init, idx_peak, stress_max) ==
    LET len_calc == Min2(Len(dedx.v), idx_peak)
        candidates == {i \in 0..(len_calc - 1) :
                          CrackMask(an, fit, dedx, E_init, stress_max, i)}
    IN  IF len_calc > 0 /\ candidates # {}
        THEN [found |-> TRUE, idx_cr |-> SetMin(candidates)]
        ELSE [found |-> FALSE, idx_cr |-> idx_peak]

\* smooth_stress value v (times SG) < ratio% * stress_max (times SG)
BelowThreshold(v, ratio, stress_max) == 100 * v < ratio * stress_max

\* Mutant: the window reaches to the end of the data.
LookAhead_toEnd(n) == n

\* line 154: look_ahead
LookAhead(n) == Max2(10, (n * 2) \div 100)

\* Mutant: the window is not inspected beyond the index itself.
FutureBelow_noLookAhead(smooth_stress, i, look_ahead, ratio, stress_max) ==
    BelowThreshold(At(smooth_stress, i), ratio, stress_max)

\* line 159-160: the look-ahead window at i stays below the threshold
FutureBelow(smooth_stress, i, look_ahead, ratio, stress_max) ==
    LET future_segment == SubSeq(smooth_stress, i + 1,
                                 Min2(i + look_ahead, Len(smooth_stress)))
    IN  Len(future_segment) > 0 /\ BelowThreshold(SeqMax(future_segment), ratio, stress_max)

\* Mutant: a scan that finds nothing falls back to where it started.
UltimateScan_peakFallback(an, i, look_ahead, ratio, stress_max) ==
    LET q == {j \in i..(Len(an.smooth_stress) - 1) :
                 /\ BelowThreshold(At(an.smooth_stress, j), ratio, stress_max)
                 /\ FutureBelow(an.smooth_stress, j, look_ahead, ratio, stress_max)}
    IN  IF q # {} THEN SetMin(q) ELSE i

\* lines 156-164: the for loop from i, with its else branch
RECURSIVE UltimateScan(_, _, _, _, _)
UltimateScan(an, i, look_ahead, ratio, stress_max) ==
    IF i >= Len(an.smooth_stress) THEN Len(an.raw_stress) - 1
    ELSE IF /\ BelowThreshold(At(an.smooth_stress, i), ratio, stress_max)
            /\ FutureBelow(an.smooth_stress, i, look_ahead, ratio, stress_max)
         THEN i
         ELSE UltimateScan(an, i + 1, look_ahead, ratio, stress_max)

\* Mutant: a curve of exactly idx_peak + 5 points is scanned too.
UltimateIndex_fewerThan(an, idx_peak, stress_max, ratio) ==
    IF Len(an.raw_stress) >= idx_peak + 5
    THEN UltimateScan(an, idx_peak, LookAhead(Len(an.raw_stress)), ratio, stress_max)
    ELSE idx_peak

\* lines 148-164: idx_u
UltimateIndex(an, idx_peak, stress_max, ratio) ==
    IF Len(an.raw_stress) > idx_peak + 5
    THEN UltimateScan(an, idx_peak, LookAhead(Len(an.raw_stress)), ratio, stress_max)
    ELSE idx_peak

NoEnergy == [y |-> <<>>, x |-> <<>>, e |-> 0]

\* lines 169-174: scipy.integrate.simpson is not evaluated: the energy is
\* held as the integrand it is computed from (the empty integrand is 0.0).
StrainEnergy(an, idx_u) ==
    LET cnt == Min2(idx_u + 1, Len(an.raw_strain))
    IN  IF cnt > 2
        THEN [y |-> Prefix(an.raw_stress, idx_u + 1), x |-> Prefix(an.raw_strain, idx_u + 1),
              e |-> an.e]
        ELSE NoEnergy

\* lines 180-186: the square of std/mean over raw_stress[idx_cr:idx_u]
PlateauCV2(an, idx_cr, idx_u) ==
    IF idx_u > idx_cr + 1
    THEN LET plat == SubSeq(an.raw_stress, idx_cr + 1, idx_u)
             m == Len(plat)
             S == SumSeq(plat)
             SS == SumSeq([i \in DOMAIN plat |-> plat[i] * plat[i]])
         IN  IF S * 1000000 > m THEN Val(m * SS - S * S, S * S, 0) ELSE Val(0, 1, 0)
    ELSE Val(0, 1, 0)

\* Mutant: the crack strain and the ultimate strain change places.
HardeningCapacity_reversed(epsilon_u, eps_fc, e) ==
    Val(Max2(0, eps_fc - epsilon_u), 1, e + 2)

\* lines 177-178 and 197: sh_cap * 100.0, strains k * 10^e
HardeningCapacity(epsilon_u, eps_fc, e) ==
    Val(Max2(0, epsilon_u - eps_fc), 1, e + 2)

\* TensileAnalyzer.run_analysis
TensileRunAnalysis(an, cfg) ==
    IF PeakRaises(an) THEN IndexError
    ELSE
    LET pk == CalcPeakRobust(an)
        idx_peak == pk.idx_peak
        stress_max == pk.stress_max
        fit == CalcEEffectiveRegression(an, idx_peak, stress_max,
                                        cfg.ELASTIC_LOWER_RATIO, cfg.ELASTIC_UPPER_RATIO)
        dedx == CalcTangentModulusCurve(an, idx_peak)
        E_init == FloorEInit(CalcEInitStatistical(dedx, an.e), fit)
        cr == CrackIndex(an, fit, dedx, E_init, idx_peak, stress_max)
        idx_cr == cr.idx_cr
        idx_u == UltimateIndex(an, idx_peak, stress_max, cfg.ULTIMATE_STRAIN_RATIO)
        epsilon_u == At(an.raw_strain, idx_u)
        eps_fc == At(an.raw_strain, idx_cr)
    IN  [Type |-> "Tensile",
         E_eff |-> Val(fit.sn, fit.d, 0 - an.e - 3),
         E_init |-> Val(E_init.n, E_init.d, 0 - an.e - 3),
         First_Crack_Strength |-> IF cr.found THEN Val(At(an.raw_stress, idx_cr), 1, 0)
                                  ELSE Val(stress_max, SG, 0),
         Ultimate_Stress |-> Val(stress_max, SG, 0),
         Ultimate_Strain |-> StrainPercent(epsilon_u, an.e),
         Strain_Energy |-> StrainEnergy(an, idx_u),
         Fracture_Energy |-> [energy |-> StrainEnergy(an, idx_u),
                              gauge |-> Val(cfg.GAUGE_LENGTH_MM, 1, 0 - 3)],
         Hardening_Capacity |-> HardeningCapacity(epsilon_u, eps_fc, an.e),
         Plateau_Stability |-> PlateauCV2(an, idx_cr, idx_u),
         idx_peak |-> idx_peak,
         idx_cr |-> idx_cr,
         idx_u |-> idx_u,
         E_intercept |-> Val(fit.inum, fit.d, 0)]

\* ------------------------------------------------------------------------
\* app/core/algorithms.py: CompressiveAnalyzer.run_analysis
\* ------------------------------------------------------------------------
\* Mutant: the last index of the smallest distance.
Idx30_lastOnTies(an, idx_peak, sigma_peak) ==
    LET dist == [i \in 1..idx_peak |-> Abs(10 * SG * an.raw_stress[i] - 3 * sigma_peak)]
    IN  SetMax({i \in 1..idx_peak : \A j \in 1..idx_peak : dist[i] <= dist[j]}) - 1

\* line 224: argmin of |raw_stress[:idx_peak] - 0.3 * sigma_peak|, the
\* first index of the smallest distance (sigma_peak times SG)
Idx30(an, idx_peak, sigma_peak) ==
    LET dist == [i \in 1..idx_peak |-> Abs(10 * SG * an.raw_stress[i] - 3 * sigma_peak)]
    IN  SetMin({i \in 1..idx_peak : \A j \in 1..idx_peak : dist[i] <= dist[j]}) - 1

\* k * 10^e > 1e-6, false for NaN
AboveMicro(k, e) ==
    IF k = NaN THEN FALSE
    ELSE IF e >= 0 - 6 THEN k * Pow10(e + 6) > 1 ELSE k > Pow10(0 - 6 - e)

\* lines 222-229: the secant modulus n/d in stress per unit of k, 0 when
\* the strain is not above 1e-6 or when argmin raises on an empty segment
SecantModulus(an, idx_peak, sigma_peak) ==
    IF idx_peak = 0 THEN [n |-> 0, d |-> 1]
    ELSE LET idx_30 == Idx30(an, idx_peak, sigma_peak)
             s30 == At(an.raw_stress, idx_30)
             e30 == At(an.raw_strain, idx_30)
         IN  IF AboveMicro(e30, an.e)
             THEN [n |-> s30, d |-> e30]
             ELSE [n |-> 0, d |-> 1]

\* Mutant: a single point takes the path of a full curve.
CompressiveRunAnalysis_noFastPath(an) ==
    IF PeakRaises(an) THEN IndexError
    ELSE LET pk == CalcPeakRobust(an)
             E_sec == SecantModulus(an, pk.idx_peak, pk.stress_max)
         IN  [Type |-> "Compressive",
              E_eff |-> Val(E_sec.n, E_sec.d, 0 - an.e - 3),
              Peak_Stress |-> Val(pk.stress_max, SG, 0),
              Peak_Strain |-> StrainPercent(pk.strain_at_peak, an.e),
              idx_peak |-> pk.idx_peak, idx_cr |-> 0, idx_u |-> pk.idx_peak]

\* CompressiveAnalyzer.run_analysis
CompressiveRunAnalysis(an) ==
    IF Len(an.raw_stress) <= 1
    THEN [Type |-> "Compressive", E_eff |-> Val(0, 1, 0),
          Peak_Stress |-> IF Len(an.raw_stress) > 0 THEN Val(an.raw_stress[1], 1, 0)
                          ELSE Val(0, 1, 0),
          Peak_Strain |-> Val(0, 1, 0), idx_peak |-> 0, idx_cr |-> 0, idx_u |-> 0]
    ELSE IF PeakRaises(an) THEN IndexError
    ELSE LET pk == CalcPeakRobust(an)
             E_sec == SecantModulus(an, pk.idx_peak, pk.stress_max)
         IN  [Type |-> "Compressive",
              E_eff |-> Val(E_sec.n, E_sec.d, 0 - an.e - 3),
              Peak_Stress |-> Val(pk.stress_max, SG, 0),
              Peak_Strain |-> StrainPercent(pk.strain_at_peak, an.e),
              idx_peak |-> pk.idx_peak, idx_cr |-> 0, idx_u |-> pk.idx_peak]

\* ------------------------------------------------------------------------
\* app/core/physics.py: MaterialConstants, and the samples of the model
\* ------------------------------------------------------------------------
\* The class attributes the engine reads; ratios in percent.
DefaultConfig ==
    [SMOOTH_WINDOW |-> 11, ELASTIC_LOWER_RATIO |-> 10, ELASTIC_UPPER_RATIO |-> 40,
     ULTIMATE_STRAIN_RATIO |-> 85, GAUGE_LENGTH_MM |-> 80]

\* Values the settings dialog can store: an even window (made odd by the
\* analyzer) with a wider regression band and a lower rupture ratio ...
WideConfig ==
    [SMOOTH_WINDOW |-> 4, ELASTIC_LOWER_RATIO |-> 10, ELASTIC_UPPER_RATIO |-> 70,
     ULTIMATE_STRAIN_RATIO |-> 60, GAUGE_LENGTH_MM |-> 100]

\* ... and a window too short for the filter's polynomial order.
ShortWindowConfig == [DefaultConfig EXCEPT !.SMOOTH_WINDOW = 3]

\* ... and a regression band set above the widened band of 5% to 50%.
HighBandConfig ==
    [DefaultConfig EXCEPT !.ELASTIC_LOWER_RATIO = 50, !.ELASTIC_UPPER_RATIO = 90]

\* Strain columns of n points, k and exponent e (strain = k * 10^e): evenly
\* and unevenly spaced absolute strain, percent strain out of order, a
\* repeated reading, and a column in a unit whose values pass 100.
Ramp(n) == [i \in 1..n |-> i]

Stretched(n) == [i \in 1..n |-> i + (i \div 2)]

Swapped(n) == [i \in 1..n |-> IF i = 1 THEN 2 ELSE IF i = 2 THEN 1 ELSE i]

Repeated(n) == [i \in 1..n |-> IF i = 1 THEN 1 ELSE i - 1]

\* The stress levels of a sample (MPa).
StressLevels == 0..3

StressColumns(n) == [1..n -> StressLevels]

\* The analyses of the model: mode, configuration, strain column.
Setups(n) ==
    {[mode |-> "Tensile", cfg |-> DefaultConfig, k |-> Ramp(n), e |-> 0 - 4],
     [mode |-> "Tensile", cfg |-> DefaultConfig, k |-> Swapped(n), e |-> 0],
     [mode |-> "Tensile", cfg |-> DefaultConfig, k |-> Ramp(n), e |-> 2],
     [mode |-> "Tensile", cfg |-> WideConfig, k |-> Stretched(n), e |-> 0 - 4],
     [mode |-> "Tensile", cfg |-> WideConfig, k |-> Repeated(n), e |-> 0 - 4],
     [mode |-> "Tensile", cfg |-> ShortWindowConfig, k |-> Ramp(n), e |-> 0 - 4],
     [mode |-> "Compressive", cfg |-> DefaultConfig, k |-> Ramp(n), e |-> 0],
     [mode |-> "Compressive", cfg |-> WideConfig, k |-> Stretched(n), e |-> 0 - 4]}

\* ------------------------------------------------------------------------
\* app/core/statistics.py: StatisticsCalculator.get_group_stats
\* ------------------------------------------------------------------------
\* An item is a function from its keys to values; a value is a number, NaN,
\* Inf, or one of None, True and a string:
NoneVal == 9003

TrueVal == 9004

StrVal == 9005

\* k.startswith("_"), for the keys of the model
StartsWithUnderscore(k) == k \in {"_idx_u"}

\* Mutant: a boolean counts as a number.
IsValidNumber_boolCounts(val) ==
    /\ val # NoneVal
    /\ val # StrVal
    /\ IsFinite(val)

\* line 46 and line 48: not None, a number, not a boolean; and finite
IsValidNumber(val) ==
    /\ val # NoneVal
    /\ val # StrVal
    /\ val # TrueVal
    /\ IsFinite(val)

\* np.array(vals, dtype=np.float64): True becomes 1.0
AsFloat(val) == IF val = TrueVal THEN 1 ELSE val

\* line 41: item.get(k)
ItemGet(item, k) == IF k \in DOMAIN item THEN item[k] ELSE NoneVal

\* Mutant: a key is a candidate only if the first item holds a number for it.
CandidateKeys_byValue(first_item) ==
    {k \in DOMAIN first_item : ~StartsWithUnderscore(k) /\ IsValidNumber(first_item[k])}

\* line 33: the candidate keys of the first non-empty item
CandidateKeys(first_item) == {k \in DOMAIN first_item : ~StartsWithUnderscore(k)}

\* lines 39-49: the values collected for key k, in item order
CollectedValues(items, k) ==
    LET col == [i \in DOMAIN items |-> ItemGet(items[i], k)]
    IN  Mask(col, [i \in DOMAIN items |-> IsValidNumber(col[i])])

\* lines 56-72: the mean, and the square of the sample standard deviation
\* (ddof = 1; 0 for a single value); both 0 without a value
GroupMean(vals) ==
    IF Len(vals) > 0
    THEN Val(SumSeq([i \in DOMAIN vals |-> AsFloat(vals[i])]), Len(vals), 0)
    ELSE Val(0, 1, 0)

GroupSd2(vals) ==
    LET n == Len(vals)
        S == SumSeq([i \in DOMAIN vals |-> AsFloat(vals[i])])
        SS == SumSeq([i \in DOMAIN vals |-> AsFloat(vals[i]) * AsFloat(vals[i])])
    IN  IF n > 1 THEN Val(n * SS - S * S, n * (n - 1), 0) ELSE Val(0, 1, 0)

\* The empty mapping {}: no count, no key.
NoStats ==
    [has_count |-> FALSE, count |-> 0, mean |-> [k \in {} |-> Val(0, 1, 0)],
     sd2 |-> [k \in {} |-> Val(0, 1, 0)]]

\* get_group_stats(data_list): count, k_mean and k_sd (squared) per
\* candidate key
get_group_stats(items) ==
    LET non_empty == {i \in DOMAIN items : DOMAIN items[i] # {}}
    IN  IF items = <<>> \/ non_empty = {} THEN NoStats
        ELSE LET first_item == items[SetMin(non_empty)]
                 candidate_keys == CandidateKeys(first_item)
             IN  [has_count |-> TRUE,
                  count |-> Len(items),
                  mean |-> [k \in candidate_keys |-> GroupMean(CollectedValues(items, k))],
                  sd2 |-> [k \in candidate_keys |-> GroupSd2(CollectedValues(items, k))]]

\* ------------------------------------------------------------------------
\* State: the samples of the batch being processed by
\* MainWindow.process_files (files), the sample at hand and how many remain
\* (todo), the analyzer of the sample at hand, the result of its run,
\* MainWindow.current_results; and the outcome of a direct call of the
\* validator.
\* ------------------------------------------------------------------------
VARIABLES mode, sample, cfg, todo, pc, an, res, current_results, recalcs, vres, files,
          data_list, stats, curves, estimates, call, config_file

vars == <<mode, sample, cfg, todo, pc, an, res, current_results, recalcs, vres, files,
          data_list, stats, curves, estimates, call, config_file>>

NoResult == [Type |-> "none"]

NoCall == [op |-> "none", key |-> "none", n |-> 0]

\* physics.py, line 71: the configuration file does not exist
NoFile == [exists |-> FALSE, data |-> <<>>, edited |-> FALSE]

NoValidation == [ok |-> FALSE, err |-> "none", stage |-> "none", strain |-> <<>>, stress |-> <<>>]

Init ==
    /\ \E n \in 1..MaxLen :
          \E su \in Setups(n), st \in StressColumns(n) :
              /\ mode = su.mode
              /\ cfg = su.cfg
              /\ sample = [strain |-> su.k, e |-> su.e, stress |-> st]
    /\ files = <<sample, sample>>
    /\ todo = 2
    /\ pc = "next"
    /\ an = NoAnalyzer
    /\ res = NoResult
    /\ current_results = <<>>
    /\ recalcs = 0
    /\ vres = NoValidation
    /\ data_list = <<>>
    /\ stats = NoStats
    /\ curves = <<>>
    /\ estimates = <<>>
    /\ call = NoCall
    /\ config_file = NoFile

\* process_files, line 647: the sample the loop takes next of the todo that
\* remain, the last one when none remains
NextSample(fs, remaining, last) ==
    IF remaining > 0 THEN fs[Len(fs) - remaining + 1] ELSE last

RunAnalysisOf(a, m, c) ==
    IF m = "Tensile" THEN TensileRunAnalysis(a, c) ELSE CompressiveRunAnalysis(a)

\* Mutant: the unit normalisation is written back into the sample's array.
Construct_inPlace ==
    /\ pc = "next"
    /\ todo > 0
    /\ an' = BaseAnalyzerInit(sample.strain, sample.e, sample.stress, cfg.SMOOTH_WINDOW)
    /\ pc' = IF an'.ok THEN "constructed" ELSE "raised"
    /\ sample' = IF an'.ok /\ Len(sample.stress) > 3
                 THEN [sample EXCEPT !.e = an'.e] ELSE sample
    /\ files' = [i \in DOMAIN files |-> IF files[i] = sample THEN sample' ELSE files[i]]
    /\ UNCHANGED <<mode, cfg, todo, res, current_results, recalcs, vres,
                   data_list, stats, curves, estimates, call, config_file>>

\* process_files, lines 651-654: the analyzer is constructed, or raises
Construct ==
    /\ pc = "next"
    /\ todo > 0
    /\ an' = BaseAnalyzerInit(sample.strain, sample.e, sample.stress, cfg.SMOOTH_WINDOW)
    /\ pc' = IF an'.ok THEN "constructed" ELSE "raised"
    /\ UNCHANGED <<mode, sample, cfg, todo, res, current_results, recalcs, vres, files,
                   data_list, stats, curves, estimates, call, config_file>>

\* process_files, lines 655-665: run_analysis, and the result stored with
\* the analyzer's arrays; a run that raises leaves the sample to the except
\* branch
RunAnalysis ==
    /\ pc = "constructed"
    /\ res' = RunAnalysisOf(an, mode, cfg)
    /\ IF Raises(res')
       THEN /\ pc' = "raised"
            /\ UNCHANGED <<current_results, todo, sample>>
       ELSE /\ current_results' = Append(current_results,
                   [res |-> res', raw_strain |-> an.raw_strain, e |-> an.e,
                    raw_stress |-> an.raw_stress, Type |-> mode])
            /\ todo' = todo - 1
            /\ sample' = NextSample(files, todo', sample)
            /\ pc' = "next"
    /\ UNCHANGED <<mode, cfg, an, recalcs, vres, files,
                   data_list, stats, curves, estimates, call, config_file>>

\* Mutant: a sample that raises ends the batch.
SkipSample_abort ==
    /\ pc = "raised"
    /\ todo' = 0
    /\ pc' = "next"
    /\ UNCHANGED <<mode, sample, cfg, an, res, current_results, recalcs, vres, files,
                   data_list, stats, curves, estimates, call, config_file>>

\* process_files, lines 666-668: the sample that raised is skipped
SkipSample ==
    /\ pc = "raised"
    /\ todo' = todo - 1
    /\ sample' = NextSample(files, todo', sample)
    /\ pc' = "next"
    /\ UNCHANGED <<mode, cfg, an, res, current_results, recalcs, vres, files,
                   data_list, stats, curves, estimates, call, config_file>>

\* recalculate_all_data, lines 925-934, for one stored result
RecalculateOne(r, c) ==
    LET a == BaseAnalyzerInit(r.raw_strain, r.e, r.raw_stress, c.SMOOTH_WINDOW)
    IN  IF a.ok THEN [r EXCEPT !.res = RunAnalysisOf(a, r.Type, c)] ELSE r

RECURSIVE RecalculateAll(_, _)
\* recalculate_all_data, line 925: the loop over the stored results
RecalculateAll(rs, c) ==
    IF rs = <<>> THEN <<>>
    ELSE <<RecalculateOne(Head(rs), c)>> \o RecalculateAll(Tail(rs), c)

Recalculate ==
    /\ pc = "next"
    /\ todo = 0
    /\ current_results # <<>>
    /\ recalcs < MaxRecalc
    /\ current_results' = RecalculateAll(current_results, cfg)
    /\ recalcs' = recalcs + 1
    /\ UNCHANGED <<mode, sample, cfg, todo, pc, an, res, vres, files,
                   data_list, stats, curves, estimates, call, config_file>>

Next == Construct \/ RunAnalysis \/ SkipSample \/ Recalculate

Spec == Init /\ [][Next]_vars

\* ------------------------------------------------------------------------
\* A batch of different samples, some of which the validator rejects
\* ------------------------------------------------------------------------
MaxBatch == 3

\* Samples a file can hold: two curves, a curve of 4 points, a curve of
\* constant stress, a single summary point, and columns of unequal length.
BatchSamples ==
    {[strain |-> Ramp(5), e |-> 0 - 4, stress |-> <<0, 1, 2, 3, 2>>],
     [strain |-> Swapped(6), e |-> 0, stress |-> <<1, 0, 2, 3, 3, 1>>],
     [strain |-> Ramp(4), e |-> 0 - 4, stress |-> <<0, 1, 2, 3>>],
     [strain |-> Ramp(5), e |-> 0 - 4, stress |-> <<2, 2, 2, 2, 2>>],
     [strain |-> <<0>>, e |-> 0, stress |-> <<3>>],
     [strain |-> Ramp(5), e |-> 0 - 4, stress |-> Ramp(6)]}

InitB ==
    /\ mode \in {"Tensile", "Compressive"}
    /\ cfg = DefaultConfig
    /\ \E n \in 1..MaxBatch : files \in [1..n -> BatchSamples]
    /\ sample = files[1]
    /\ todo = Len(files)
    /\ pc = "next"
    /\ an = NoAnalyzer
    /\ res = NoResult
    /\ current_results = <<>>
    /\ recalcs = 0
    /\ vres = NoValidation
    /\ data_list = <<>>
    /\ stats = NoStats
    /\ curves = <<>>
    /\ estimates = <<>>
    /\ call = NoCall
    /\ config_file = NoFile

SpecB == InitB /\ [][Next]_vars

\* ------------------------------------------------------------------------
\* The validator called on its own, on columns that may differ in length,
\* be out of order, repeat a strain or hold non-finite values.
\* ------------------------------------------------------------------------
RawStrains(n) == [1..n -> (1..5) \cup {NaN}]

Flat(n) == [i \in 1..n |-> 1]

Holed(n) == [i \in 1..n |-> IF i = 2 THEN Inf ELSE i]

\* Stress columns for a strain column of n points: the value at index i
\* (1-based) is i, so that a returned stress names the input pair it came
\* from.
RawStresses(n) ==
    {Ramp(n), Flat(n), Holed(n), Ramp(n + 1)} \cup (IF n > 0 THEN {Ramp(n - 1)} ELSE {})

InitV ==
    /\ mode = "Tensile"
    /\ cfg = DefaultConfig
    /\ \E n \in 0..MaxRawLen :
          \E k \in RawStrains(n), st \in RawStresses(n), e \in {0 - 3, 0 - 10} :
              sample = [strain |-> k, e |-> e, stress |-> st]
    /\ files = <<>>
    /\ todo = 0
    /\ pc = "raw"
    /\ an = NoAnalyzer
    /\ res = NoResult
    /\ current_results = <<>>
    /\ recalcs = 0
    /\ vres = NoValidation
    /\ data_list = <<>>
    /\ stats = NoStats
    /\ curves = <<>>
    /\ estimates = <<>>
    /\ call = NoCall
    /\ config_file = NoFile

Validate ==
    /\ pc = "raw"
    /\ vres' = validate_and_sort_data(sample.strain, sample.stress, sample.e)
    /\ pc' = "validated"
    /\ UNCHANGED <<mode, sample, cfg, todo, an, res, current_results, recalcs, files,
                   data_list, stats, curves, estimates, call, config_file>>

NextV == Validate

SpecV == InitV /\ [][NextV]_vars

\* ------------------------------------------------------------------------
\* A direct call of get_group_stats on a collection of items
\* ------------------------------------------------------------------------
MaxItems == 3

ItemKeys == {"E_eff", "Type", "_idx_u"}

\* The values an item can hold under a key.
ItemValues(k) ==
    IF k = "E_eff" THEN {NoneVal, TrueVal, NaN, 1, 3}
    ELSE IF k = "Type" THEN {StrVal, Inf}
    ELSE {5}

\* The items: each key absent or holding one of its values.
Items ==
    UNION {{f \in [D -> {NoneVal, TrueVal, StrVal, NaN, Inf, 1, 3, 5}] :
               \A k \in D : f[k] \in ItemValues(k)} : D \in SUBSET ItemKeys}

InitS ==
    /\ mode = "Tensile"
    /\ cfg = DefaultConfig
    /\ sample = [strain |-> <<>>, e |-> 0, stress |-> <<>>]
    /\ files = <<>>
    /\ todo = 0
    /\ pc = "items"
    /\ an = NoAnalyzer
    /\ res = NoResult
    /\ current_results = <<>>
    /\ recalcs = 0
    /\ vres = NoValidation
    /\ \E n \in 0..MaxItems : data_list \in [1..n -> Items]
    /\ stats = NoStats
    /\ curves = <<>>
    /\ estimates = <<>>
    /\ call = NoCall
    /\ config_file = NoFile

GetGroupStats ==
    /\ pc = "items"
    /\ stats' = get_group_stats(data_list)
    /\ pc' = "aggregated"
    /\ UNCHANGED <<mode, sample, cfg, todo, an, res, current_results, recalcs, vres, files,
                   data_list, curves, estimates, call, config_file>>

NextS == GetGroupStats

SpecS == InitS /\ [][NextS]_vars

\* ------------------------------------------------------------------------
\* A direct construction and run of CompressiveAnalyzer on arrays of at
\* most MaxShort points, of equal or unequal length
\* ------------------------------------------------------------------------
MaxShort == 3

ShortStrains == UNION {[1..n -> {0, 1, 250, NaN}] : n \in 0..MaxShort}

ShortStresses == UNION {[1..n -> {0, 12, 42}] : n \in 0..MaxShort}

InitA ==
    /\ mode = "Compressive"
    /\ cfg = DefaultConfig
    /\ \E k \in ShortStrains, st \in ShortStresses, e \in {0, 0 - 4} :
          sample = [strain |-> k, e |-> e, stress |-> st]
    /\ files = <<>>
    /\ todo = 0
    /\ pc = "args"
    /\ an = NoAnalyzer
    /\ res = NoResult
    /\ current_results = <<>>
    /\ recalcs = 0
    /\ vres = NoValidation
    /\ data_list = <<>>
    /\ stats = NoStats
    /\ curves = <<>>
    /\ estimates = <<>>
    /\ call = NoCall
    /\ config_file = NoFile

\* CompressiveAnalyzer(strain, stress)
NewAnalyzer ==
    /\ pc = "args"
    /\ an' = BaseAnalyzerInit(sample.strain, sample.e, sample.stress, cfg.SMOOTH_WINDOW)
    /\ pc' = IF an'.ok THEN "built" ELSE "failed"
    /\ UNCHANGED <<mode, sample, cfg, todo, res, current_results, recalcs, vres, files,
                   data_list, stats, curves, estimates, call, config_file>>

\* analyzer.run_analysis()
CallRunAnalysis ==
    /\ pc = "built"
    /\ res' = RunAnalysisOf(an, mode, cfg)
    /\ pc' = "returned"
    /\ UNCHANGED <<mode, sample, cfg, todo, an, current_results, recalcs, vres, files,
                   data_list, stats, curves, estimates, call, config_file>>

NextA == NewAnalyzer \/ CallRunAnalysis

SpecA == InitA /\ [][NextA]_vars

\* ------------------------------------------------------------------------
\* One file analysed by process_files, with no recalculation afterwards
\* ------------------------------------------------------------------------
InitT ==
    /\ \E n \in 1..MaxLen :
          \E su \in Setups(n), st \in StressColumns(n) :
              /\ mode = su.mode
              /\ cfg = su.cfg
              /\ sample = [strain |-> su.k, e |-> su.e, stress |-> st]
    /\ files = <<sample>>
    /\ todo = 1
    /\ pc = "next"
    /\ an = NoAnalyzer
    /\ res = NoResult
    /\ current_results = <<>>
    /\ recalcs = 0
    /\ vres = NoValidation
    /\ data_list = <<>>
    /\ stats = NoStats
    /\ curves = <<>>
    /\ estimates = <<>>
    /\ call = NoCall
    /\ config_file = NoFile

NextT == Construct \/ RunAnalysis \/ SkipSample

SpecT == InitT /\ [][NextT]_vars

\* ------------------------------------------------------------------------
\* One file holding a curve longer than the look-ahead window
\* ------------------------------------------------------------------------
\* The longest such curve.
MaxScanLen == 14

\* Stress columns of two levels: the lower one is below every threshold
\* ratio of the configurations once the higher one is the peak.
LongColumns(n) == [1..n -> {1, 2}]

InitU ==
    /\ mode = "Tensile"
    /\ cfg \in {ShortWindowConfig, WideConfig}
    /\ \E n \in 1..MaxScanLen :
          \E st \in LongColumns(n) :
              sample = [strain |-> Ramp(n), e |-> 0 - 4, stress |-> st]
    /\ files = <<sample>>
    /\ todo = 1
    /\ pc = "next"
    /\ an = NoAnalyzer
    /\ res = NoResult
    /\ current_results = <<>>
    /\ recalcs = 0
    /\ vres = NoValidation
    /\ data_list = <<>>
    /\ stats = NoStats
    /\ curves = <<>>
    /\ estimates = <<>>
    /\ call = NoCall
    /\ config_file = NoFile

SpecU == InitU /\ [][NextT]_vars

\* ------------------------------------------------------------------------
\* One file analysed in tension under regression bands that the widened
\* band contains, overlaps or lies below
\* ------------------------------------------------------------------------
\* The longest curve of these runs.
MaxFitLen == 6

InitE ==
    /\ mode = "Tensile"
    /\ cfg \in {DefaultConfig, WideConfig, HighBandConfig}
    /\ \E n \in 1..MaxFitLen :
          \E k \in {Ramp(n), Stretched(n)}, st \in StressColumns(n) :
              sample = [strain |-> k, e |-> 0 - 4, stress |-> st]
    /\ files = <<sample>>
    /\ todo = 1
    /\ pc = "next"
    /\ an = NoAnalyzer
    /\ res = NoResult
    /\ current_results = <<>>
    /\ recalcs = 0
    /\ vres = NoValidation
    /\ data_list = <<>>
    /\ stats = NoStats
    /\ curves = <<>>
    /\ estimates = <<>>
    /\ call = NoCall
    /\ config_file = NoFile

SpecE == InitE /\ [][NextT]_vars

\* ------------------------------------------------------------------------
\* _calc_E_init_statistical called on a tangent-modulus curve and on the
\* same curve with one value changed
\* ------------------------------------------------------------------------
\* The longest tangent-modulus curve.
MaxCurveLen == 20

\* Curves (MPa per unit strain) that are 0 but for at most two values.
MarkedCurves(n) ==
    {[i \in 1..n |-> IF i = a THEN x ELSE IF i = b THEN y ELSE 0] :
        a \in 1..n, b \in 1..n, x \in {0, 2000, 5000}, y \in {0, 2000, 5000}}

\* The curve with the value at one index replaced.
ChangedCurves(c) == {[c EXCEPT ![j] = v] : j \in DOMAIN c, v \in {0, 3000, 70000}}

InitI ==
    /\ mode = "Tensile"
    /\ cfg = DefaultConfig
    /\ sample = [strain |-> <<>>, e |-> 0, stress |-> <<>>]
    /\ files = <<>>
    /\ todo = 0
    /\ pc = "curves"
    /\ an = NoAnalyzer
    /\ res = NoResult
    /\ current_results = <<>>
    /\ recalcs = 0
    /\ vres = NoValidation
    /\ data_list = <<>>
    /\ stats = NoStats
    /\ \E n \in 0..MaxCurveLen :
          \E c \in MarkedCurves(n) : \E d \in ChangedCurves(c) : curves = <<c, d>>
    /\ estimates = <<>>
    /\ call = NoCall
    /\ config_file = NoFile

\* self._calc_E_init_statistical(dedx), for each of the two curves
CalcEInit ==
    /\ pc = "curves"
    /\ estimates' = [j \in DOMAIN curves |->
                         CalcEInitStatistical([v |-> curves[j], den |-> 1], 0)]
    /\ pc' = "estimated"
    /\ UNCHANGED <<mode, sample, cfg, todo, an, res, current_results, recalcs, vres, files,
                   data_list, stats, curves, call, config_file>>

NextI == CalcEInit

SpecI == InitI /\ [][NextI]_vars

\* ------------------------------------------------------------------------
\* One file analysed in tension whose stress column holds readings below
\* zero and no reading inside the regression bands
\* ------------------------------------------------------------------------
SignedColumns(n) == [1..n -> {0 - 1, 0, 2, 3}]

InitN ==
    /\ mode = "Tensile"
    /\ cfg = DefaultConfig
    /\ \E n \in 1..MaxLen :
          \E st \in SignedColumns(n) :
              sample = [strain |-> Ramp(n), e |-> 0 - 4, stress |-> st]
    /\ files = <<sample>>
    /\ todo = 1
    /\ pc = "next"
    /\ an = NoAnalyzer
    /\ res = NoResult
    /\ current_results = <<>>
    /\ recalcs = 0
    /\ vres = NoValidation
    /\ data_list = <<>>
    /\ stats = NoStats
    /\ curves = <<>>
    /\ estimates = <<>>
    /\ call = NoCall
    /\ config_file = NoFile

SpecN == InitN /\ [][NextT]_vars

\* ------------------------------------------------------------------------
\* app/core/physics.py: MaterialConstants as a mutable class
\* ------------------------------------------------------------------------
\* A Python value: its type, and for a number ten times its value.  A str
\* holding the text of a number carries that number and whether the text
\* has a decimal point; v = -1, -2, -3 are the texts "abc", "#2c3e50" and
\* "None".
PyInt(n) == [t |-> "int", v |-> 10 * n, dot |-> FALSE]

PyFloat(tenths) == [t |-> "float", v |-> tenths, dot |-> TRUE]

PyStr(v, dot) == [t |-> "str", v |-> v, dot |-> dot]

PyNone == [t |-> "NoneType", v |-> 0, dot |-> FALSE]

\* The conversion raised ValueError or TypeError.
ConversionError == [t |-> "raises", v |-> 0, dot |-> FALSE]

\* int(x), float(x) and str(x)
Convert(x, target_type) ==
    IF target_type = "int"
    THEN IF x.t = "int" THEN x
         ELSE IF x.t = "float" THEN PyInt(x.v \div 10)
         ELSE IF x.t = "str" /\ x.v >= 0 /\ ~x.dot THEN PyInt(x.v \div 10)
         ELSE ConversionError
    ELSE IF target_type = "float"
    THEN IF x.t = "float" THEN x
         ELSE IF x.t = "int" THEN PyFloat(x.v)
         ELSE IF x.t = "str" /\ x.v >= 0 THEN PyFloat(x.v)
         ELSE ConversionError
    ELSE IF x.t = "str" THEN x
         ELSE IF x.t = "NoneType" THEN PyStr(0 - 3, FALSE)
         ELSE PyStr(x.v, x.dot)

\* Lines 22-56: the class attributes as the class statement leaves them
\* (three of the public parameters, one of each type), _DEFAULTS empty.
ClassBody ==
    [k \in {"GAUGE_LENGTH_MM", "SMOOTH_WINDOW", "STYLE_COLOR_RAW", "_DEFAULTS"} |->
        IF k = "GAUGE_LENGTH_MM" THEN PyFloat(800)
        ELSE IF k = "SMOOTH_WINDOW" THEN PyInt(11)
        ELSE IF k = "STYLE_COLOR_RAW" THEN PyStr(0 - 2, FALSE)
        ELSE <<>>]

\* The names a call or a file can use, in the order of sorted(): parameters,
\* a name the class does not have, the private cache, and a method.
Names ==
    <<"GAUGE_LENGTH_MM", "NEW_PARAM", "SMOOTH_WINDOW", "STYLE_COLOR_RAW", "_DEFAULTS",
      "load_config">>

\* key.isupper()
IsUpper(key) == key # "load_config"

\* key.startswith("_")
IsPrivate(key) == key = "_DEFAULTS"

\* hasattr(cls, key)
HasAttr(c, key) == key \in DOMAIN c \/ key = "load_config"

\* setattr(cls, key, value)
SetAttr(c, key, value) ==
    [k \in DOMAIN c \cup {key} |-> IF k = key THEN value ELSE c[k]]

\* dir(cls) filtered by key.isupper() and not key.startswith("_")
PublicNames(c) == {k \in DOMAIN c : IsUpper(k) /\ ~IsPrivate(k)}

\* _cache_defaults
cache_defaults(c) ==
    IF DOMAIN c["_DEFAULTS"] = {}
    THEN [c EXCEPT !["_DEFAULTS"] = [k \in PublicNames(c) |-> c[k]]]
    ELSE c

\* type(value) of an argument: a dict is given under _DEFAULTS only
TypeOfArg(key, value) == IF key = "_DEFAULTS" THEN "dict" ELSE value.t

\* update_config, lines 106-118, for one keyword argument: the class, and
\* whether the argument was set
UpdateOne(c, key, value) ==
    IF HasAttr(c, key) /\ IsUpper(key)
    THEN IF key \in DOMAIN c["_DEFAULTS"] /\ TypeOfArg(key, value) # c["_DEFAULTS"][key].t
         THEN LET converted == Convert(value, c["_DEFAULTS"][key].t)
              IN  IF converted = ConversionError THEN [cls |-> c, changed |-> FALSE]
                  ELSE [cls |-> SetAttr(c, key, converted), changed |-> TRUE]
         ELSE [cls |-> SetAttr(c, key, value), changed |-> TRUE]
    ELSE [cls |-> c, changed |-> FALSE]

\* _save_config: the public attributes of a basic type, in the order of
\* dir(cls)
RECURSIVE SavedFrom(_, _)
SavedFrom(c, i) ==
    IF i > Len(Names) THEN <<>>
    ELSE (IF /\ Names[i] \in PublicNames(c)
             /\ c[Names[i]].t \in {"int", "float", "str"}
          THEN <<[key |-> Names[i], value |-> c[Names[i]]]>>
          ELSE <<>>) \o SavedFrom(c, i + 1)

save_config(c) == [exists |-> TRUE, data |-> SavedFrom(c, 1), edited |-> FALSE]

\* load_config, lines 79-92: the items of the file in their order
RECURSIVE LoadItems(_, _)
LoadItems(c, data) ==
    IF data = <<>> THEN c
    ELSE LET key == Head(data).key
             value == Head(data).value
         IN  IF HasAttr(c, key) /\ IsUpper(key)
             THEN LET target_type == IF key \in DOMAIN c["_DEFAULTS"]
                                     THEN c["_DEFAULTS"][key].t
                                     ELSE TypeOfArg(key, value)
                  IN  IF target_type \in {"int", "float"}
                      THEN LET converted == Convert(value, target_type)
                           IN  IF converted = ConversionError THEN LoadItems(c, Tail(data))
                               ELSE LoadItems(SetAttr(c, key, converted), Tail(data))
                      ELSE LoadItems(SetAttr(c, key, value), Tail(data))
             ELSE LoadItems(c, Tail(data))

\* load_config
load_config(c, file) ==
    IF ~file.exists THEN cache_defaults(c) ELSE LoadItems(cache_defaults(c), file.data)

\* reset_defaults, lines 126-129
reset_defaults(c) ==
    LET d == c["_DEFAULTS"]
    IN  [k \in DOMAIN c \cup DOMAIN d |-> IF k \in DOMAIN d THEN d[k] ELSE c[k]]

\* ------------------------------------------------------------------------
\* The calls made on MaterialConstants after the module is loaded, and the
\* configuration file in the user's home directory, which the user can edit
\* ------------------------------------------------------------------------
\* How many calls are made.
MaxCalls == 2

\* The values given for a name: a number and texts for the gauge length, a
\* fraction and a text for the window, a number and None for the colour.
ValuesOf(key) ==
    IF key = "GAUGE_LENGTH_MM" THEN {PyInt(7), PyStr(0 - 1, FALSE), PyNone}
    ELSE IF key = "SMOOTH_WINDOW" THEN {PyFloat(59), PyStr(90, FALSE), PyStr(0 - 1, FALSE)}
    ELSE IF key = "STYLE_COLOR_RAW" THEN {PyInt(7), PyNone}
    ELSE {PyInt(7)}

\* Values given under _DEFAULTS: an empty dict and a dict with one
\* parameter.
ArgDicts == {<<>>, [k \in {"GAUGE_LENGTH_MM"} |-> PyFloat(10)]}

ValuesFor(key) == IF key = "_DEFAULTS" THEN ArgDicts ELSE ValuesOf(key)

ArgNames == {Names[i] : i \in DOMAIN Names}

\* The files a user writes: one item, or the cache and then a parameter.
EditedFiles ==
    {<<[key |-> "GAUGE_LENGTH_MM", value |-> PyStr(0 - 1, FALSE)]>>,
     <<[key |-> "SMOOTH_WINDOW", value |-> PyFloat(59)]>>,
     <<[key |-> "STYLE_COLOR_RAW", value |-> PyNone]>>,
     <<[key |-> "NEW_PARAM", value |-> PyInt(7)]>>,
     <<[key |-> "_DEFAULTS", value |-> <<>>],
       [key |-> "SMOOTH_WINDOW", value |-> PyStr(0 - 1, FALSE)]>>}

\* Line 151: the module is loaded, _cache_defaults has run
InitC ==
    /\ mode = "Tensile"
    /\ cfg = cache_defaults(ClassBody)
    /\ sample = [strain |-> <<>>, e |-> 0, stress |-> <<>>]
    /\ files = <<>>
    /\ todo = 0
    /\ pc = "loaded"
    /\ an = NoAnalyzer
    /\ res = NoResult
    /\ current_results = <<>>
    /\ recalcs = 0
    /\ vres = NoValidation
    /\ data_list = <<>>
    /\ stats = NoStats
    /\ curves = <<>>
    /\ estimates = <<>>
    /\ call = NoCall
    /\ config_file = NoFile

\* MaterialConstants.update_config(key=value)
UpdateConfig ==
    /\ pc = "loaded"
    /\ call.n < MaxCalls
    /\ \E key \in ArgNames : \E value \in ValuesFor(key) :
          LET u == UpdateOne(cache_defaults(cfg), key, value)
          IN  /\ cfg' = u.cls
              /\ config_file' = IF u.changed THEN save_config(u.cls)
                                 ELSE [config_file EXCEPT !.edited = FALSE]
              /\ call' = [op |-> "update_config", key |-> key, value |-> value,
                          n |-> call.n + 1]
    /\ UNCHANGED <<mode, sample, todo, pc, an, res, current_results, recalcs, vres, files,
                   data_list, stats, curves, estimates>>

\* MaterialConstants.load_config()
LoadConfig ==
    /\ pc = "loaded"
    /\ call.n < MaxCalls
    /\ cfg' = load_config(cfg, config_file)
    /\ config_file' = [config_file EXCEPT !.edited = FALSE]
    /\ call' = [op |-> "load_config", key |-> "none", n |-> call.n + 1]
    /\ UNCHANGED <<mode, sample, todo, pc, an, res, current_results, recalcs, vres, files,
                   data_list, stats, curves, estimates>>

\* MaterialConstants.reset_defaults()
ResetDefaults ==
    /\ pc = "loaded"
    /\ call.n < MaxCalls
    /\ cfg' = reset_defaults(cfg)
    /\ config_file' = IF DOMAIN cfg["_DEFAULTS"] = {}
                       THEN [config_file EXCEPT !.edited = FALSE]
                       ELSE save_config(cfg')
    /\ call' = [op |-> "reset_defaults", key |-> "none", n |-> call.n + 1]
    /\ UNCHANGED <<mode, sample, todo, pc, an, res, current_results, recalcs, vres, files,
                   data_list, stats, curves, estimates>>

\* The user rewrites or deletes ~/.ecc_analyzer_config.json between two
\* calls.
EditFile ==
    /\ pc = "loaded"
    /\ call.n < MaxCalls
    /\ ~config_file.edited
    /\ \/ \E data \in EditedFiles :
             config_file' = [exists |-> TRUE, data |-> data, edited |-> TRUE]
       \/ config_file' = [NoFile EXCEPT !.edited = TRUE]
    /\ UNCHANGED <<mode, sample, cfg, todo, pc, an, res, current_results, recalcs, vres,
                   files, data_list, stats, curves, estimates, call>>

NextC == UpdateConfig \/ LoadConfig \/ ResetDefaults \/ EditFile

SpecC == InitC /\ [][NextC]_vars

\* ------------------------------------------------------------------------
\* Claims
\* ------------------------------------------------------------------------
\* The analyzer at hand has been run in tension: res is its result.
\* app/ui/main_window.py, lines 655-655: res = an.run_analysis() has returned
Analysed == pc = "next" /\ an.ok /\ res.Type = "Tensile"

\* app/core/algorithms.py, lines 152-152: len(self.raw_stress)
NumPoints == Len(an.raw_stress)

\* app/core/algorithms.py, lines 54-54: stress_max
PeakValue == At(an.smooth_stress, res.idx_peak)

\* app/core/algorithms.py, lines 157-157: self.smooth_stress[i] < threshold_u
Below(i) == BelowThreshold(At(an.smooth_stress, i), cfg.ULTIMATE_STRAIN_RATIO, PeakValue)

\* The look-ahead window from i: max(10, floor(0.02 n)) indices, cut at the
\* last index.
Window(i) == i..Min2(i + Max2(10, (2 * NumPoints) \div 100) - 1, NumPoints - 1)

\* app/core/algorithms.py, lines 152-152: len(self.raw_stress) > idx_peak + 5
ScanRan == NumPoints > res.idx_peak + 5

\* C1: every tension result has 0 <= _idx_cr <= _idx_u <= (number of curve
\* points) - 1.
C1_IndexOrder ==
    \A i \in DOMAIN current_results :
        LET r == current_results[i]
        IN  r.Type = "Tensile" =>
                /\ 0 <= r.res.idx_cr
                /\ r.res.idx_cr <= r.res.idx_u
                /\ r.res.idx_u <= Len(r.raw_stress) - 1

\* a validated curve whose crack index lies before its peak and whose
\* ultimate index was found by the scan before the last index
C1_Witness ==
    \E i \in DOMAIN current_results :
        LET r == current_results[i]
        IN  /\ r.Type = "Tensile"
            /\ Len(r.raw_stress) >= 5
            /\ r.res.idx_cr < r.res.idx_u
            /\ r.res.idx_cr < r.res.idx_peak

\* C2: when validate_and_sort_data returns, the strain is strictly
\* increasing, strain and stress have the same length >= 5, and every value
\* is finite.
C2_ValidatedCurve ==
    (pc = "validated" /\ vres.ok) =>
        /\ Len(vres.strain) = Len(vres.stress)
        /\ Len(vres.strain) >= 5
        /\ \A i \in 1..(Len(vres.strain) - 1) : vres.strain[i] < vres.strain[i + 1]
        /\ \A i \in DOMAIN vres.strain : IsFinite(vres.strain[i])
        /\ \A i \in DOMAIN vres.stress : IsFinite(vres.stress[i])

\* a curve returned from an input that held a non-finite pair and a strain
\* out of order
C2_Witness ==
    /\ pc = "validated"
    /\ vres.ok
    /\ \E i \in DOMAIN sample.strain : ~IsFinite(sample.strain[i])
    /\ \E i \in 1..(Len(sample.strain) - 1) : sample.strain[i] > sample.strain[i + 1]

\* app/core/algorithms.py, lines 156-157: no index of the scan is below threshold_u
NeverBelowAfterPeak == \A i \in res.idx_peak..(NumPoints - 1) : ~Below(i)

\* C3 as stated: if the smoothed stress from the peak onward is never below
\* ratio x peak, _idx_u is the last index, wherever the peak lies.
C3_AsStated == (Analysed /\ NeverBelowAfterPeak) => res.idx_u = NumPoints - 1

\* C3 amended: under the same condition _idx_u is the last index when the
\* curve has more than idx_peak + 5 points, and the peak index otherwise.
C3_LastIndexWhenScanned ==
    (Analysed /\ NeverBelowAfterPeak) =>
        res.idx_u = IF NumPoints > res.idx_peak + 5 THEN NumPoints - 1 ELSE res.idx_peak

\* a scanned curve that never drops below the threshold after a peak that
\* is not its last point
C3_Witness ==
    /\ Analysed
    /\ NeverBelowAfterPeak
    /\ ScanRan
    /\ res.idx_u = NumPoints - 1
    /\ res.idx_u # res.idx_peak

\* The stress at i is below the threshold and a value of the look-ahead
\* window from i is not.
\* app/core/algorithms.py, lines 157-160: below threshold_u with a rebound in future_segment
DipThenRebound(i) == Below(i) /\ \E j \in Window(i) : ~Below(j)

\* app/core/algorithms.py, lines 160-160: np.max(future_segment) < threshold_u
SustainedDrop(i) == \A j \in Window(i) : Below(j)

\* C4: an index at or after the peak whose stress dips below the threshold
\* and rebounds within the look-ahead window is never _idx_u; a scan that
\* stopped before it stopped at a sustained drop, otherwise it went past.
C4_DipNotSelected ==
    Analysed =>
        \A i \in res.idx_peak..(NumPoints - 1) :
            DipThenRebound(i) =>
                /\ res.idx_u # i
                /\ ScanRan => \/ res.idx_u > i
                              \/ res.idx_u >= res.idx_peak /\ SustainedDrop(res.idx_u)

\* a scan that met a dip with a rebound and went past it
C4_Witness ==
    /\ Analysed
    /\ ScanRan
    /\ \E i \in res.idx_peak..(NumPoints - 1) : DipThenRebound(i) /\ res.idx_u > i

\* The reported metrics that are numbers, and the indices.
\* app/core/algorithms.py, lines 188-203: the result mapping's numbers and indices
SameReported(r1, r2) ==
    /\ r1.Type = r2.Type
    /\ r1.idx_peak = r2.idx_peak /\ r1.idx_cr = r2.idx_cr /\ r1.idx_u = r2.idx_u
    /\ ValCmp(r1.E_eff, r2.E_eff) = 0
    /\ IF r1.Type = "Tensile"
       THEN /\ ValCmp(r1.E_init, r2.E_init) = 0
            /\ ValCmp(r1.First_Crack_Strength, r2.First_Crack_Strength) = 0
            /\ ValCmp(r1.Ultimate_Stress, r2.Ultimate_Stress) = 0
            /\ ValCmp(r1.Ultimate_Strain, r2.Ultimate_Strain) = 0
            /\ ValCmp(r1.Hardening_Capacity, r2.Hardening_Capacity) = 0
            /\ ValCmp(r1.Plateau_Stability, r2.Plateau_Stability) = 0
            /\ ValCmp(r1.E_intercept, r2.E_intercept) = 0
       ELSE /\ ValCmp(r1.Peak_Stress, r2.Peak_Stress) = 0
            /\ ValCmp(r1.Peak_Strain, r2.Peak_Strain) = 0

\* C5: recalculate_all_data with unchanged configuration leaves every
\* metric and index of every stored sample as the initial analysis produced
\* it, however often it is repeated.
C5_RecalculateKeeps ==
    [][Recalculate =>
          \A i \in DOMAIN current_results :
              SameReported(current_results'[i].res, current_results[i].res)]_vars

C7_InitialAtLeastEffective ==
    \A i \in DOMAIN current_results :
        LET r == current_results[i]
        IN  r.Type = "Tensile" => ValCmp(r.res.E_init, r.res.E_eff) >= 0

\* app/core/algorithms.py, lines 129-130: E_init before the floor
StatisticalEInit == CalcEInitStatistical(CalcTangentModulusCurve(an, res.idx_peak), an.e)

\* a result whose statistical estimate was positive and smaller than the
\* effective modulus, and was replaced by it
C7_Witness ==
    /\ Analysed
    /\ StatisticalEInit.n > 0
    /\ ValCmp(Val(StatisticalEInit.n, StatisticalEInit.d, 0 - an.e - 3), res.E_eff) < 0
    /\ res.E_init = res.E_eff

\* C8: validate_and_sort_data fails with the dimension-mismatch error
\* whenever the two sequences differ in length.
C8_MismatchFirst ==
    (pc = "validated" /\ Len(sample.strain) # Len(sample.stress)) =>
        ~vres.ok /\ vres.err = "DimensionMismatch"

\* a mismatched input with fewer than 5 strain points, a non-finite strain
\* and a repeated strain
C8_Witness ==
    /\ pc = "validated"
    /\ Len(sample.strain) # Len(sample.stress)
    /\ Len(sample.strain) < 5
    /\ \E i \in DOMAIN sample.strain : ~IsFinite(sample.strain[i])
    /\ \E i, j \in DOMAIN sample.strain : i # j /\ sample.strain[i] = sample.strain[j]
    /\ vres.err = "DimensionMismatch"

\* app/core/validators.py, lines 43-43: finite_mask
FinitePairs ==
    {i \in DOMAIN sample.strain : IsFinite(sample.strain[i]) /\ IsFinite(sample.stress[i])}

\* app/core/validators.py, lines 57-57: unique_strain
DistinctStrains == {sample.strain[i] : i \in FinitePairs}

\* C9: an equal-length input with fewer than 5 points, fewer than 5 finite
\* pairs or fewer than 5 distinct finite strains fails with the
\* insufficient-data error.
C9_InsufficientData ==
    (pc = "validated" /\ Len(sample.strain) = Len(sample.stress)) =>
        ((\/ Len(sample.strain) < 5
          \/ Cardinality(FinitePairs) < 5
          \/ Cardinality(DistinctStrains) < 5)
            => ~vres.ok /\ vres.err = "InsufficientData")

\* strain [1,2,2,3,4]: 5 finite pairs, 4 distinct strains
C9_Witness ==
    /\ pc = "validated"
    /\ sample.strain = <<1, 2, 2, 3, 4>>
    /\ sample.stress = <<1, 2, 3, 4, 5>>
    /\ vres.err = "InsufficientData"
    /\ vres.stage = "unique"

\* C10: a tension analysis of a raw sample with fewer than 5 points never
\* produces a result.
C10_ShortTensionRejected ==
    (mode = "Tensile" /\ Len(sample.stress) < 5) =>
        current_results = <<>>

\* The sample at hand passes validate_and_sort_data.
\* app/core/validators.py, lines 4-79: validate_and_sort_data returns
Validated == validate_and_sort_data(sample.strain, sample.stress, sample.e).ok

\* app/core/algorithms.py, lines 43-47: savgol_filter raises inside the try
SmoothingFailed ==
    /\ NumPoints > OddWindow(cfg.SMOOTH_WINDOW)
    /\ SavgolFails(NumPoints, OddWindow(cfg.SMOOTH_WINDOW), 3)

\* What the run at hand returned where a step of it could not be computed:
\* the raw copy for the filter, slope and intercept 0 for a fit on fewer
\* than 3 points, modulus 0 for a secant lookup on an empty segment, energy
\* 0 for an integral over fewer than 3 points.
\* app/core/algorithms.py, lines 41-49: fallbacks of __init__ and run_analysis
FallbacksTaken ==
    /\ SmoothingFailed => an.smooth_stress = Copy(an.raw_stress)
    /\ res.Type = "Tensile" =>
           /\ res.idx_peak < 3 => (res.E_eff = Val(0, 1, 0) /\ res.E_intercept = Val(0, 1, 0))
           /\ res.idx_u < 2 => res.Strain_Energy = NoEnergy
    /\ res.Type = "Compressive" =>
           (res.idx_peak = 0 => res.E_eff = Val(0, 1, 0))

\* C11: for a sample that passes the validator, construction and
\* run_analysis of either analyzer never raise and a result mapping is
\* stored; a step that fails resolves to its fallback.
C11_NoAbortAfterValidation ==
    \/ /\ pc # "raised"
       /\ pc = "constructed" => an.ok
       /\ Len(current_results) = Len(files) - todo
       /\ \A i \in DOMAIN current_results : current_results[i].res.Type = mode
       /\ (pc = "next" /\ todo < Len(files)) => (an.ok /\ res.Type = mode /\ FallbacksTaken)
    \/ ~Validated

\* a validated tension curve whose filter failed and whose fit had fewer
\* than 3 points, analysed and stored
C11_Witness ==
    /\ Validated
    /\ pc = "next" /\ todo = 0
    /\ Len(current_results) = 2
    /\ SmoothingFailed
    /\ res.Type = "Tensile"
    /\ res.idx_peak < 3
    /\ res.idx_u >= 2

\* The stored entry of a sample analysed on its own.
\* app/ui/main_window.py, lines 651-657: process_files: one sample's analyzer, result and stored arrays
AnalysedAlone(s) ==
    LET a == BaseAnalyzerInit(s.strain, s.e, s.stress, cfg.SMOOTH_WINDOW)
    IN  [ok |-> a.ok,
         entry |-> IF a.ok
                   THEN [res |-> RunAnalysisOf(a, mode, cfg), raw_strain |-> a.raw_strain,
                         e |-> a.e, raw_stress |-> a.raw_stress, Type |-> mode]
                   ELSE [res |-> NoResult, raw_strain |-> <<>>, e |-> 0,
                         raw_stress |-> <<>>, Type |-> mode]]

RECURSIVE ResultsOfFirst(_)
\* The entries of the first k samples of the batch that do not raise, each
\* as analysed on its own, in input order.
\* app/ui/main_window.py, lines 647-668: process_files: the loop over the samples
ResultsOfFirst(k) ==
    IF k = 0 THEN <<>>
    ELSE LET one == AnalysedAlone(files[k])
         IN  IF one.ok THEN Append(ResultsOfFirst(k - 1), one.entry)
             ELSE ResultsOfFirst(k - 1)

\* C12: in process_files, a sample whose analysis raises contributes no
\* result; every other sample processed so far contributes exactly one
\* result, in input order, equal to its result when analysed on its own.
C12_BatchIsolation ==
    recalcs = 0 => current_results = ResultsOfFirst(Len(files) - todo)

\* a finished batch of three samples whose second sample raised and whose
\* first and third samples differ and are both stored
C12_Witness ==
    /\ pc = "next" /\ todo = 0 /\ recalcs = 0
    /\ Len(files) = 3
    /\ ~AnalysedAlone(files[2]).ok
    /\ AnalysedAlone(files[1]).ok
    /\ AnalysedAlone(files[3]).ok
    /\ files[1] # files[3]
    /\ Len(current_results) = 2
    /\ current_results[1].raw_stress # current_results[2].raw_stress

\* The items whose value under k is numeric, non-boolean and finite.
\* app/core/statistics.py, lines 46-48: items whose value passes the filter
ValidItems(k) ==
    {i \in DOMAIN data_list :
        /\ k \in DOMAIN data_list[i]
        /\ data_list[i][k] \notin {NoneVal, TrueVal, StrVal, NaN, Inf}}

RECURSIVE SumOver(_, _)
\* app/core/statistics.py, lines 60-60: np.mean: the sum
SumOver(k, S) ==
    IF S = {} THEN 0
    ELSE LET i == CHOOSE j \in S : TRUE
         IN  data_list[i][k] + SumOver(k, S \ {i})

\* C13: k_mean is the arithmetic mean of the values of k that are numeric,
\* non-boolean and finite; the items where k is None, missing, non-numeric,
\* boolean, NaN or infinite are ignored.
C13_MeanOfValid ==
    pc = "aggregated" =>
        \A k \in DOMAIN stats.mean :
            ValidItems(k) # {} =>
                /\ stats.mean[k].e = 0
                /\ stats.mean[k].n * Cardinality(ValidItems(k))
                       = SumOver(k, ValidItems(k)) * stats.mean[k].d

\* values 1.0, None, 3.0 give mean 2.0
C13_Witness ==
    /\ pc = "aggregated"
    /\ Len(data_list) = 3
    /\ data_list[1] = [k \in {"E_eff"} |-> 1]
    /\ data_list[2] = [k \in {"E_eff"} |-> NoneVal]
    /\ data_list[3] = [k \in {"E_eff"} |-> 3]
    /\ stats.mean["E_eff"] = Val(2, 1, 0)

\* app/core/statistics.py, lines 29-29: (i for i in data_list if i)
NonEmptyItems == {i \in DOMAIN data_list : DOMAIN data_list[i] # {}}

\* app/core/statistics.py, lines 29-29: first_item
FirstNonEmpty == data_list[SetMin(NonEmptyItems)]

C15_CountOfItems ==
    pc = "aggregated" => (stats.has_count /\ stats.count = Len(data_list))

\* C16: a compression input of at most one stress point returns Peak Stress
\* equal to that stress (0 for no point), E_eff 0 and Peak Strain 0,
\* whatever the strain input is.
C16_SinglePointCompression ==
    Len(sample.stress) <= 1 =>
        /\ pc # "failed"
        /\ pc = "returned" =>
               /\ res.Type = "Compressive"
               /\ res.Peak_Stress = IF Len(sample.stress) = 1
                                    THEN Val(sample.stress[1], 1, 0) ELSE Val(0, 1, 0)
               /\ res.E_eff = Val(0, 1, 0)
               /\ res.Peak_Strain = Val(0, 1, 0)

\* stress [42.0] with a strain input of two values, one of them NaN
C16_Witness ==
    /\ pc = "returned"
    /\ sample.stress = <<42>>
    /\ sample.strain = <<NaN, 250>>
    /\ res.Peak_Stress = Val(42, 1, 0)

\* C17: for an input of at most 3 stress points the construction raises no
\* error, stores strain and stress as given (strain not divided by 100) and
\* the smoothed stress equals the raw stress.
C17_ShortInputVerbatim ==
    (pc # "args" /\ Len(sample.stress) <= 3) =>
        /\ pc # "failed"
        /\ an.ok
        /\ an.raw_strain = sample.strain
        /\ an.e = sample.e
        /\ an.raw_stress = sample.stress
        /\ Len(an.smooth_stress) = Len(sample.stress)
        /\ \A i \in DOMAIN sample.stress : an.smooth_stress[i] = SG * sample.stress[i]

\* 3 stress points; a strain above 1.0, repeated, and a NaN
C17_Witness ==
    /\ pc = "built"
    /\ Len(sample.stress) = 3
    /\ sample.strain = <<250, 250, NaN>>
    /\ sample.e = 0
    /\ an.raw_strain = <<250, 250, NaN>>

\* The earliest finite input pair whose strain is x.
\* app/core/validators.py, lines 43-57: unique_indices over the finite pairs
FirstPairIndex(x) == SetMin({i \in FinitePairs : sample.strain[i] = x})

\* C18: the output strains are the distinct strains of the finite input
\* pairs in ascending order, and the stress paired with each is the stress
\* of the earliest finite input pair of that strain.
C18_FirstOccurrenceKept ==
    (pc = "validated" /\ vres.ok) =>
        /\ {vres.strain[j] : j \in DOMAIN vres.strain} = DistinctStrains
        /\ Len(vres.strain) = Cardinality(DistinctStrains)
        /\ \A j \in 1..(Len(vres.strain) - 1) : vres.strain[j] < vres.strain[j + 1]
        /\ \A j \in DOMAIN vres.strain :
               vres.stress[j] = sample.stress[FirstPairIndex(vres.strain[j])]

\* a returned curve whose input repeated a strain with another stress, the
\* repetition coming before a smaller strain
C18_Witness ==
    /\ pc = "validated"
    /\ vres.ok
    /\ \E i, j, k \in DOMAIN sample.strain :
           /\ i < j /\ j < k
           /\ sample.strain[i] = sample.strain[j]
           /\ sample.stress[i] # sample.stress[j]
           /\ sample.strain[k] < sample.strain[j]

\* The stresses of the cleaned curve.
\* app/core/validators.py, lines 62-62: stress[unique_indices]
CleanedStress == {sample.stress[FirstPairIndex(x)] : x \in DistinctStrains}

\* (last - first strain) * 10^e < 1e-9
\* app/core/validators.py, lines 71-72: strain_span < 1e-9
StrainSpanSmall ==
    LET span == SetMax(DistinctStrains) - SetMin(DistinctStrains)
    IN  IF sample.e >= 0 - 9 THEN span < 1 ELSE span < Pow10(0 - 9 - sample.e)

\* app/core/validators.py, lines 75-76: stress_span < 1e-9
StressSpanSmall == SetMax(CleanedStress) - SetMin(CleanedStress) < 1

\* C19: a cleaned curve of at least 5 unique finite points fails with the
\* degenerate-range error when its strain span or its stress span is
\* smaller than 1e-9, and is returned otherwise.
C19_DegenerateRange ==
    (/\ pc = "validated"
     /\ Len(sample.strain) = Len(sample.stress)
     /\ Cardinality(DistinctStrains) >= 5) =>
        IF StrainSpanSmall \/ StressSpanSmall
        THEN ~vres.ok /\ vres.err = "DegenerateRange"
        ELSE vres.ok

\* a curve of constant stress over a strain span that is wide enough, one
\* strain repeated
C19_Witness ==
    /\ pc = "validated"
    /\ Len(sample.strain) = Len(sample.stress)
    /\ Cardinality(DistinctStrains) >= 5
    /\ Len(sample.strain) > Cardinality(DistinctStrains)
    /\ ~StrainSpanSmall
    /\ StressSpanSmall
    /\ vres.err = "DegenerateRange"

\* C20: the Hardening Capacity of every tension result, first or
\* recalculated, is >= 0; the run at hand reports
\* max(0, strain[_idx_u] - strain[_idx_cr]) x 100 of its analyzer's strain.
C20_HardeningCapacity ==
    /\ \A i \in DOMAIN current_results :
           LET r == current_results[i]
           IN  r.Type = "Tensile" => ValCmp(r.res.Hardening_Capacity, Val(0, 1, 0)) >= 0
    /\ Analysed =>
           LET diff == At(an.raw_strain, res.idx_u) - At(an.raw_strain, res.idx_cr)
           IN  ValCmp(res.Hardening_Capacity,
                      Val(IF diff > 0 THEN diff ELSE 0, 1, an.e + 2)) = 0

\* a tension result whose ultimate index lies after its crack index
C20_Witness ==
    /\ Analysed
    /\ res.idx_u > res.idx_cr
    /\ ValCmp(res.Hardening_Capacity, Val(0, 1, 0)) > 0
    /\ \E i \in DOMAIN current_results : current_results[i].res = res

\* C21: the Ultimate Strain (%) of a tension result is the strain at the
\* index of the peak stress (_idx_peak), times 100.
C21_UltimateStrainAtPeak ==
    Analysed => res.Ultimate_Strain = StrainPercent(At(an.raw_strain, res.idx_peak), an.e)

\* The index the forward scan stops at, read off the smoothed curve: the
\* first index from the peak at which the stress and its whole look-ahead
\* window are below the threshold, the last index when there is none.
Qualifies(i) == Below(i) /\ SustainedDrop(i)

\* app/core/algorithms.py, lines 156-164: TensileAnalyzer.run_analysis: for loop with break and else
FirstQualifying ==
    LET q == {i \in res.idx_peak..(NumPoints - 1) : Qualifies(i)}
    IN  IF q # {} THEN SetMin(q) ELSE NumPoints - 1

\* C22 as stated: the short-curve guard applies exactly when the curve has
\* fewer than idx_peak + 5 points (_idx_u = _idx_peak); a curve of
\* idx_peak + 5 points or more is scanned forward from the peak.
C22_AsStated ==
    Analysed =>
        res.idx_u = IF NumPoints < res.idx_peak + 5 THEN res.idx_peak ELSE FirstQualifying

\* C22 amended: the guard applies exactly when the curve has idx_peak + 5
\* points or fewer (_idx_u = _idx_peak); only a curve of more than
\* idx_peak + 5 points is scanned forward from the peak.
C22_GuardAtMostPeakPlus5 ==
    Analysed =>
        res.idx_u = IF NumPoints <= res.idx_peak + 5 THEN res.idx_peak ELSE FirstQualifying

\* a curve of exactly idx_peak + 5 points that a scan would have taken to
\* a later index, left at the peak
C22_Witness ==
    /\ Analysed
    /\ NumPoints = res.idx_peak + 5
    /\ FirstQualifying # res.idx_peak
    /\ res.idx_u = res.idx_peak

\* C23: when the forward scan runs, _idx_u is the smallest index
\* i >= idx_peak whose smoothed stress, with every value of the look-ahead
\* window from i (max(10, floor(0.02 n)) indices, cut at the last index), is
\* below ULTIMATE_STRAIN_RATIO x peak: no earlier qualifying index is
\* skipped, and _idx_u = n - 1 when no index qualifies.
C23_FirstQualifyingIndex ==
    (Analysed /\ ScanRan) =>
        /\ res.idx_u \in res.idx_peak..(NumPoints - 1)
        /\ \A i \in res.idx_peak..(res.idx_u - 1) : ~Qualifies(i)
        /\ \/ Qualifies(res.idx_u)
           \/ /\ res.idx_u = NumPoints - 1
              /\ \A i \in res.idx_peak..(NumPoints - 1) : ~Qualifies(i)

\* a scan that went past a dip with a rebound and stopped at a drop that
\* lasts for the whole window, with a rebound after the window
C23_Witness ==
    /\ Analysed
    /\ ScanRan
    /\ Qualifies(res.idx_u)
    /\ \E i \in res.idx_peak..(res.idx_u - 1) : DipThenRebound(i)
    /\ \E j \in (res.idx_u + 10)..(NumPoints - 1) : ~Below(j)

\* What crack detection works from, for the analyzer at hand: the
\* regression line, the tangent-modulus curve and the initial modulus.
\* app/core/algorithms.py, lines 125-125: E_eff, intercept = self._calc_E_effective_regression(idx_peak, stress_max)
CrackFit ==
    CalcEEffectiveRegression(an, res.idx_peak, PeakValue,
                             cfg.ELASTIC_LOWER_RATIO, cfg.ELASTIC_UPPER_RATIO)

\* app/core/algorithms.py, lines 128-128: dedx = self._calc_tangent_modulus_curve(idx_peak)
CrackDedx == CalcTangentModulusCurve(an, res.idx_peak)

\* app/core/algorithms.py, lines 129-131: E_init, floored by E_eff
CrackEInit == FloorEInit(CalcEInitStatistical(CrackDedx, an.e), CrackFit)

\* (regression line value - raw stress) at i > max(0.05, 0.01 x peak stress)
\* app/core/algorithms.py, lines 136-138: dev > max(0.05, 0.01 * stress_max)
Deviates(i) ==
    RatGt(CrackFit.sn * At(an.raw_strain, i) + CrackFit.inum
              - At(an.raw_stress, i) * CrackFit.d, CrackFit.d,
          Max2(5 * SG, PeakValue), 100 * SG)

\* tangent modulus at i < 0.85 x initial modulus
\* app/core/algorithms.py, lines 138-138: dedx[:len_calc] < 0.85 * E_init
Softened(i) == RatLt(At(CrackDedx.v, i), CrackDedx.den, 17 * CrackEInit.n, 20 * CrackEInit.d)

\* raw stress at i > 0.1 x peak stress
\* app/core/algorithms.py, lines 138-139: self.raw_stress[:len_calc] > 0.1 * stress_max
AboveNoiseFloor(i) == 10 * SG * At(an.raw_stress, i) > PeakValue

CrackCandidates ==
    {i \in 0..(Min2(Len(CrackDedx.v), res.idx_peak) - 1) :
        Deviates(i) /\ Softened(i) /\ AboveNoiseFloor(i)}

BandPoints(lo, hi) ==
    {i \in 0..(res.idx_peak - 1) :
        /\ 100 * SG * At(an.raw_stress, i) >= lo * PeakValue
        /\ 100 * SG * At(an.raw_stress, i) <= hi * PeakValue}

ConfiguredBand == BandPoints(cfg.ELASTIC_LOWER_RATIO, cfg.ELASTIC_UPPER_RATIO)

WidenedBand == BandPoints(5, 50)

\* app/core/algorithms.py, lines 67-73: x_fit, y_fit
FittedPoints == IF Cardinality(ConfiguredBand) >= 3 THEN ConfiguredBand ELSE WidenedBand

\* The values of a column at a set of indices, in the order of the indices.
\* app/core/algorithms.py, lines 67-68: strain_seg[mask], stress_seg[mask]
Column(arr, S) ==
    LET idx == SortAsc(S) IN [j \in DOMAIN idx |-> At(arr, idx[j])]

\* C25: the regression fits only the pre-peak points whose raw stress lies
\* in [ELASTIC_LOWER_RATIO, ELASTIC_UPPER_RATIO] x peak stress; with fewer
\* than 3 of them it fits the pre-peak points in [5%, 50%] x peak stress
\* instead; with fewer than 3 of those too, slope and intercept are 0.
C25_RegressionBand ==
    Analysed =>
        IF Cardinality(FittedPoints) < 3
        THEN res.E_eff = Val(0, 1, 0) /\ res.E_intercept = Val(0, 1, 0)
        ELSE LET f == PolyFit1(Column(an.raw_strain, FittedPoints),
                               Column(an.raw_stress, FittedPoints))
             IN  /\ res.E_eff = Val(Max2(0, f.sn), f.d, 0 - an.e - 3)
                 /\ res.E_intercept = Val(f.inum, f.d, 0)

\* a line fitted to the widened band, which holds other points than the
\* configured one
C25_Witness ==
    /\ Analysed
    /\ Cardinality(ConfiguredBand) \in 1..2
    /\ Cardinality(WidenedBand) >= 3
    /\ ConfiguredBand \cap WidenedBand = {}
    /\ res.E_intercept # Val(0, 1, 0)

\* The two curves agree at every index below lim.
\* app/core/algorithms.py, lines 106-106: sub_curve = dedx_curve[:limit_idx] of two curves
AgreeBelow(lim) ==
    \A i \in 0..(Len(curves[1]) - 1) : i < lim => At(curves[1], i) = At(curves[2], i)

\* No value of the first curve at an index below lim lies between 1000
\* and 60000.
\* app/core/algorithms.py, lines 111-113: valid_slopes empty
NoneValidBelow(lim) ==
    \A i \in 0..(Len(curves[1]) - 1) :
        i < lim => ~(At(curves[1], i) > 1000 /\ At(curves[1], i) < 60000)

\* The first index at or beyond 30% of the length of the curve.
ThirtyPercent == (3 * Len(curves[1]) + 9) \div 10

\* The number of values the search reads: max(5, floor(0.3 x length)).
SearchLimit == Max2(5, (3 * Len(curves[1])) \div 10)

FullCurveCompression ==
    /\ pc \in {"next", "returned"}
    /\ an.ok
    /\ res.Type = "Compressive"
    /\ Len(an.raw_stress) > 1

\* 10 SG x the distance of the raw stress at i from 0.3 x peak stress
\* app/core/algorithms.py, lines 223-224: np.abs(self.raw_stress[:idx_peak] - target)
DistanceTo30(i) == Abs(10 * SG * At(an.raw_stress, i) - 3 * PeakValue)

\* The pre-peak indices whose raw stress is nearest to 0.3 x peak stress.
\* app/core/algorithms.py, lines 224-224: argmin over self.raw_stress[:idx_peak]
Nearest30 ==
    {i \in 0..(res.idx_peak - 1) :
        \A j \in 0..(res.idx_peak - 1) : DistanceTo30(i) <= DistanceTo30(j)}

\* strain k x 10^e > 1e-6
\* app/core/algorithms.py, lines 227-227: e30 > 1e-6
StrainAboveMicro(k, e) ==
    /\ k # NaN
    /\ IF e >= 0 - 6 THEN k * Pow10(e + 6) > 1 ELSE k > Pow10(0 - 6 - e)

\* C27: on the full-curve compression path the secant modulus is raw
\* stress / raw strain at the pre-peak index whose raw stress is nearest to
\* 0.3 x peak stress (the smallest on ties) when that strain exceeds 1e-6,
\* and 0 otherwise; with the peak at index 0 the modulus is 0 and the
\* result is returned with _idx_cr = 0 and _idx_u = _idx_peak.
C27_SecantModulus ==
    FullCurveCompression =>
        /\ res.idx_cr = 0
        /\ res.idx_u = res.idx_peak
        /\ IF res.idx_peak = 0 THEN res.E_eff = Val(0, 1, 0)
           ELSE LET i30 == SetMin(Nearest30)
                IN  res.E_eff = IF StrainAboveMicro(At(an.raw_strain, i30), an.e)
                                THEN Val(At(an.raw_stress, i30), At(an.raw_strain, i30),
                                         0 - an.e - 3)
                                ELSE Val(0, 1, 0)

\* the nearest pre-peak stress is not at the first index, and the modulus
\* is taken there
C27_Witness ==
    /\ FullCurveCompression
    /\ res.idx_peak > 1
    /\ SetMin(Nearest30) > 0
    /\ StrainAboveMicro(At(an.raw_strain, SetMin(Nearest30)), an.e)
    /\ res.E_eff # Val(0, 1, 0)

\* The window the filter is given: SMOOTH_WINDOW when odd, SMOOTH_WINDOW + 1
\* when even.
EffectiveWindow ==
    IF cfg.SMOOTH_WINDOW % 2 = 0 THEN cfg.SMOOTH_WINDOW + 1 ELSE cfg.SMOOTH_WINDOW

\* The filter fails: its polynomial order 3 is not below the window.
\* app/core/algorithms.py, lines 45-47: savgol_filter(stress, window_length=win, polyorder=3) raises
FilterFails == 3 >= EffectiveWindow

\* app/core/algorithms.py, lines 43-49: self.smooth_stress = stress.copy()
SmoothingSkipped == NumPoints <= EffectiveWindow \/ FilterFails

\* C28: the smoothed stress has the length of the validated curve; the
\* effective window is SMOOTH_WINDOW when odd and SMOOTH_WINDOW + 1 when
\* even; when the curve is not longer than that window, or the filter
\* fails, the smoothed stress is the raw stress element for element (a
\* longer curve is filtered with that window).
C28_SmoothedCurve ==
    an.ok =>
        /\ Len(an.smooth_stress) = Len(an.raw_stress)
        /\ SmoothingSkipped =>
               \A i \in DOMAIN an.raw_stress : an.smooth_stress[i] = SG * an.raw_stress[i]
        /\ (~SmoothingSkipped /\ EffectiveWindow = 5) =>
               an.smooth_stress = Savgol5(an.raw_stress, 3)

\* a validated curve of 5 points under SMOOTH_WINDOW = 4: as long as the
\* effective window, left as it is where the filter would have changed it
C28_Witness ==
    /\ an.ok
    /\ cfg.SMOOTH_WINDOW = 4
    /\ NumPoints = 5
    /\ an.smooth_stress = [i \in DOMAIN an.raw_stress |-> SG * an.raw_stress[i]]
    /\ Savgol5(an.raw_stress, 3) # an.smooth_stress

\* The public configuration parameters, with the values they had when the
\* class was loaded.
\* app/core/physics.py, lines 62-64: cls._DEFAULTS as cached at load
PublicParameters == PublicNames(ClassBody)

\* The value given for a parameter cannot be converted to the type of the
\* parameter's default.
\* app/core/physics.py, lines 112-115: target_type(value) raises
Unconvertible(key, value) ==
    key \in PublicParameters /\ Convert(value, ClassBody[key].t) = ConversionError

\* C29: after any sequence of update_config and load_config calls,
\* reset_defaults restores every public configuration parameter to the
\* value it had when the class was loaded; update_config and load_config
\* change only attributes that already exist; and a value that cannot be
\* converted to the type of the parameter's default leaves that parameter
\* unchanged.
C29_ResetRestoresDefaults ==
    /\ [](call.op = "reset_defaults" =>
            \A k \in PublicParameters : cfg[k] = ClassBody[k])
    /\ [][/\ call'.op \in {"update_config", "load_config"} => DOMAIN cfg' = DOMAIN cfg
          /\ (call'.op = "update_config" /\ Unconvertible(call'.key, call'.value)) =>
                 cfg'[call'.key] = cfg[call'.key]
          /\ call'.op = "load_config" =>
                 \A i \in DOMAIN config_file.data :
                     Unconvertible(config_file.data[i].key, config_file.data[i].value) =>
                         cfg'[config_file.data[i].key] = cfg[config_file.data[i].key]]_vars

\* The regression has returned slope 0.0 and intercept 0.0.
\* app/core/algorithms.py, lines 58-81: _calc_E_effective_regression returns 0.0, 0.0
ZeroRegression == res.E_eff = Val(0, 1, 0) /\ res.E_intercept = Val(0, 1, 0)

\* C30: when the regression falls back to slope 0.0 and intercept 0.0 and
\* the peak stress is positive, crack detection finds no qualifying index:
\* _idx_cr = _idx_peak and the First Crack Strength is the peak stress.
C30_NoCrackOnZeroRegression ==
    (Analysed /\ ZeroRegression /\ PeakValue > 0) =>
        /\ res.idx_cr = res.idx_peak
        /\ res.First_Crack_Strength = res.Ultimate_Stress
        /\ \A i \in 0..(res.idx_peak - 1) :
               ~(Deviates(i) /\ AboveNoiseFloor(i))

\* the regression fell back for want of points, and a reading below zero
\* before the peak meets the deviation and the softening condition but not
\* the noise floor
C30_Witness ==
    /\ Analysed
    /\ Cardinality(FittedPoints) < 3
    /\ ZeroRegression
    /\ PeakValue > 0
    /\ \E i \in 0..(Min2(Len(CrackDedx.v), res.idx_peak) - 1) :
          Deviates(i) /\ Softened(i) /\ ~AboveNoiseFloor(i)
    /\ res.idx_cr = res.idx_peak

=============================================================================
